---- MODULE Spec2Model ----
(***************************************************************************)
(* The interactive control core of TMWT: the application state machine of  *)
(* src/src/app.rs (navigation, search filtering, modal key handling) and   *)
(* the inline-edit session it drives through the SettingEditor trait of    *)
(* src/src/settings_editor.rs and src/src/network_editor.rs.               *)
(*                                                                         *)
(* Strings that the code inspects character by character (item names,      *)
(* descriptions, keywords, the search query) are sequences of one-char     *)
(* strings.  Option<T> is a sequence of length 0 (None) or 1 (Some).       *)
(***************************************************************************)
EXTENDS Integers, Sequences, FiniteSets, TLC

VARIABLES
    category_index,   \* App.category_index
    item_index,       \* App.item_index
    filtered_items,   \* App.filtered_items, as indices into Items, in order
    focus_area,       \* App.focus_area
    input_mode,       \* App.input_mode
    search_query,     \* App.search_query
    status_message,   \* App.status_message : Option
    should_quit,      \* App.should_quit
    edit_state,       \* App.edit_state : Option<EditState>
    backing,          \* the operating-system state behind each editor
    running,          \* "running", "quit" (loop left by break) or "panicked"
    calls,            \* the editor and launcher calls of the last handled event
    opened_backing,   \* Option: the backing state read when the open session
                      \* was opened (history)
    main,             \* position of the main thread in main() and run_app
    poller,           \* position of the thread spawned by EventHandler::new
    channel,          \* the mpsc channel: events sent and not yet received
    receiver_dropped, \* the EventHandler (and its Receiver) has been dropped
    terminal,         \* [raw_mode, alternate_screen] of the terminal
    tick_due,         \* last_tick.elapsed() >= tick_rate
    generated,        \* every event read and every Tick made by the poller,
                      \* in order (history)
    received          \* every event next() has returned, in order (history)

app_vars == <<category_index, item_index, filtered_items, focus_area, input_mode,
              search_query, status_message, should_quit, edit_state, backing,
              running, calls, opened_backing>>

thread_vars == <<main, poller, channel, receiver_dropped, terminal, tick_due,
                 generated, received>>

vars == <<app_vars, thread_vars>>

----------------------------------------------------------------------------
(* Bounds of the model *)

\* longest search query explored
MaxQueryLen == 2

\* how far an index that escaped its range by a wrapped subtraction is followed
MaxRunaway == 2

\* most events the channel holds at once in the model (the channel itself is
\* unbounded)
MaxQueue == 2

\* most events the poller reads or makes in one run of the model
MaxEvents == 3

----------------------------------------------------------------------------
(* Option<T> *)

None == <<>>

Some(x) == <<x>>

IsSome(o) == Len(o) = 1

Unwrap(o) == o[1]

----------------------------------------------------------------------------
(* usize arithmetic *)

\* stands for usize::MAX: larger than every length and index of the model
UsizeMax == 2147483647

\* a - b on usize in a build without overflow checks
WrappingSub(a, b) == IF a >= b THEN a - b ELSE UsizeMax - (b - a) + 1

----------------------------------------------------------------------------
(* Strings *)

\* char::to_lowercase on the characters of the model
LowerChar(c) == IF c = "S" THEN "s" ELSE c

\* str::to_lowercase
to_lowercase(s) == [i \in 1..Len(s) |-> LowerChar(s[i])]

\* str::contains with a string pattern
contains(hay, needle) ==
    \E i \in 0..(Len(hay) - Len(needle)) :
        SubSeq(hay, i + 1, i + Len(needle)) = needle

\* the characters a key event can carry in the model
KeyChars == {"q", "s", "S"}

----------------------------------------------------------------------------
(* SettingValue *)

Bool(b) == [tag |-> "Bool", v |-> b]

Selection(s) == [tag |-> "Selection", v |-> s]

Resolution(w, h) == [tag |-> "Resolution", v |-> <<w, h>>]

\* SettingValue::Float, counted in thousandths
Float(x) == [tag |-> "Float", v |-> x]

Integer(i) == [tag |-> "Integer", v |-> i]

SettingOption(l, val) == [label |-> l, value |-> val]

----------------------------------------------------------------------------
(* Results of fallible calls: anyhow::Result<T> *)

Ok(x) == [ok |-> TRUE, val |-> x]

Err(m) == [ok |-> FALSE, err |-> m]

----------------------------------------------------------------------------
(* The catalog: Category::all() and SETTINGS_ITEMS *)

Categories == <<"Network", "Display", "System">>

Items ==
    << [name |-> <<"S", "q">>, description |-> None, category |-> "Network",
        keywords |-> << <<"q", "s">> >>,
        editor_key |-> Some("wifi_adapter_toggle"), can_edit_inline |-> TRUE],
       [name |-> <<"e", "/">>, description |-> Some(<<"S", " ", "q">>),
        category |-> "Network", keywords |-> <<>>,
        editor_key |-> None, can_edit_inline |-> FALSE],
       [name |-> <<"q", "e">>, description |-> None, category |-> "Display",
        keywords |-> <<>>,
        editor_key |-> Some("display_resolution"), can_edit_inline |-> TRUE],
       [name |-> <<"s", "s">>, description |-> Some(<<"e">>),
        category |-> "Display", keywords |-> << <<"/">>, <<"S", "q">> >>,
        editor_key |-> Some("night_light"), can_edit_inline |-> TRUE],
       [name |-> <<"q", "/">>, description |-> None, category |-> "System",
        keywords |-> <<>>,
        editor_key |-> Some("power_plan"), can_edit_inline |-> TRUE],
       [name |-> <<"S", " ">>, description |-> Some(<<"q", "q">>),
        category |-> "System", keywords |-> << <<"e", "s">> >>,
        editor_key |-> Some("audio_device"), can_edit_inline |-> TRUE],
       [name |-> <<"e", "e">>, description |-> None, category |-> "System",
        keywords |-> <<>>,
        editor_key |-> None, can_edit_inline |-> TRUE] >>

----------------------------------------------------------------------------
(* App::filter_items *)

\* filter_closure that compares with the query as typed, not lowercased
filter_closure_query_as_typed(item, ci, q) ==
    /\ item.category = Categories[ci + 1]
    /\ \/ q = <<>>
       \/ contains(to_lowercase(item.name), q)
       \/ contains(to_lowercase(IF IsSome(item.description)
                                THEN Unwrap(item.description) ELSE <<>>), q)
       \/ \E k \in 1..Len(item.keywords) : contains(to_lowercase(item.keywords[k]), q)

\* the closure of filter_items: does item pass for category index ci (from 0)
\* and query q
filter_closure(item, ci, q) ==
    LET selected_category == Categories[ci + 1]
        category_match == item.category = selected_category
        search_match ==
            IF q = <<>>
            THEN TRUE
            ELSE \/ contains(to_lowercase(item.name), to_lowercase(q))
                 \/ contains(to_lowercase(IF IsSome(item.description)
                                          THEN Unwrap(item.description)
                                          ELSE <<>>),
                             to_lowercase(q))
                 \/ \E k \in 1..Len(item.keywords) :
                        contains(to_lowercase(item.keywords[k]), to_lowercase(q))
    IN  category_match /\ search_match

\* the new filtered_items (positions in Items, in iteration order)
filter_items(ci, q) ==
    SelectSeq([i \in 1..Len(Items) |-> i],
              LAMBDA i : filter_closure(Items[i], ci, q))

----------------------------------------------------------------------------
(* The operating system behind the editors.  Every call of an editor runs   *)
(* an external command or a platform API; what it answers is chosen from    *)
(* the sets below at each call.                                             *)

\* EnumDisplaySettingsW: the mode lists (width, height, frequency) it can yield
DisplayEnumerations ==
    { <<>>,
      << <<1280, 720, 50>> >>,
      << <<800, 600, 60>>, <<1920, 1080, 60>>, <<1920, 1080, 75>>,
         <<1280, 720, 60>>, <<1280, 720, 50>>, <<800, 600, 60>> >> }

\* powercfg /list: the (guid, name) lists it can yield
PowerPlanLists ==
    { <<>>, << <<"guid-1", "Balanced">>, <<"guid-2", "Power saver">> >> }

\* Win32_SoundDevice: the (id, name) lists it can yield
AudioDeviceLists ==
    { <<>>, << <<"dev-1", "Speakers">>, <<"dev-2", "Headset">> >> }

\* editors whose backing state the model tracks
BackedKeys ==
    {"display_resolution", "power_plan", "wifi_adapter_toggle",
     "ethernet_adapter_toggle", "wifi_dns", "ethernet_dns", "wifi_power_mode"}

----------------------------------------------------------------------------
(* DisplaySettingsEditor *)

RECURSIVE insert_by_area(_, _)
\* position of mode m in a list kept by area descending: after its equals
insert_by_area(sorted, m) ==
    IF sorted = <<>>
    THEN <<m>>
    ELSE IF Head(sorted)[1] * Head(sorted)[2] >= m[1] * m[2]
         THEN <<Head(sorted)>> \o insert_by_area(Tail(sorted), m)
         ELSE <<m>> \o sorted

RECURSIVE sort_by_area(_, _)
\* modes.sort_by(area descending): a stable sort
sort_by_area(sorted, rest) ==
    IF rest = <<>> THEN sorted
    ELSE sort_by_area(insert_by_area(sorted, Head(rest)), Tail(rest))

RECURSIVE unique_modes(_, _)
\* the loop of get_display_modes: keep unseen modes of at least 59 Hz
unique_modes(modes, rest) ==
    IF rest = <<>> THEN modes
    ELSE LET r == Head(rest)
             seen == \E i \in 1..Len(modes) : modes[i] = r
         IN  unique_modes(IF ~seen /\ r[3] >= 59 THEN Append(modes, r) ELSE modes,
                          Tail(rest))

\* DisplaySettingsEditor::get_display_modes on the enumeration enum
get_display_modes(enum) == sort_by_area(<<>>, unique_modes(<<>>, enum))

RECURSIVE display_options(_, _)
\* DisplaySettingsEditor::get_available_options: one option per resolution
display_options(options, modes) ==
    IF modes = <<>> THEN options
    ELSE LET m == Head(modes)
             v == Resolution(m[1], m[2])
             seen == \E i \in 1..Len(options) : options[i].value = v
         IN  display_options(IF seen THEN options
                             ELSE Append(options, SettingOption(<<m[1], m[2]>>, v)),
                             Tail(modes))

----------------------------------------------------------------------------
(* DNSServerEditor, WiFiPowerEditor: fixed option lists *)

dns_options ==
    << SettingOption("Automatic (DHCP)", Selection("dhcp")),
       SettingOption("Google DNS", Selection("8.8.8.8,8.8.4.4")),
       SettingOption("Cloudflare DNS", Selection("1.1.1.1,1.0.0.1")),
       SettingOption("OpenDNS", Selection("208.67.222.222,208.67.220.220")),
       SettingOption("Quad9 DNS", Selection("9.9.9.9,149.112.112.112")) >>

\* DNSServerEditor::get_current_dns: what netsh shows for a configuration
get_current_dns(cfg) ==
    CASE cfg = "dhcp" -> "Automatic (DHCP)"
      [] cfg = "8.8.8.8,8.8.4.4" -> "8.8.8.8"
      [] cfg = "1.1.1.1,1.0.0.1" -> "1.1.1.1"
      [] cfg = "208.67.222.222,208.67.220.220" -> "208.67.222.222"
      [] OTHER -> "9.9.9.9"

wifi_power_options ==
    << SettingOption("Maximum Performance", Selection("0")),
       SettingOption("Low Power Saving", Selection("1")),
       SettingOption("Medium Power Saving", Selection("2")),
       SettingOption("Maximum Power Saving", Selection("3")) >>

\* WiFiPowerEditor::get_power_saving_mode: the mode name powercfg shows
get_power_saving_mode(mode) ==
    CASE mode = "0" -> "Maximum Performance"
      [] mode = "1" -> "Low Power Saving"
      [] mode = "2" -> "Medium Power Saving"
      [] OTHER -> "Maximum Power Saving"

toggle_options ==
    << SettingOption("Enabled", Bool(TRUE)), SettingOption("Disabled", Bool(FALSE)) >>

----------------------------------------------------------------------------
(* The SettingEditor trait.  An editor is identified by its registry key;   *)
(* b is the backing state.  Each operation yields the set of results the    *)
(* call can have.                                                           *)

KnownEditors ==
    {"display_resolution", "power_plan", "audio_device", "wifi_adapter_toggle",
     "ethernet_adapter_toggle", "wifi_dns", "ethernet_dns", "wifi_power_mode"}

ToggleEditors == {"wifi_adapter_toggle", "ethernet_adapter_toggle"}

DnsEditors == {"wifi_dns", "ethernet_dns"}

\* settings_editor::create_editor
create_editor(setting_type) ==
    IF setting_type \in KnownEditors THEN Some(setting_type) ELSE None

\* SettingEditor::get_editor_type
get_editor_type(ed) ==
    CASE ed \in ToggleEditors -> [kind |-> "Toggle"]
      [] ed = "display_resolution" -> [kind |-> "ResolutionPicker"]
      [] OTHER -> [kind |-> "Dropdown"]

\* PowerPlanEditor::get_current_value given the active guid and the plan list
power_plan_current(active_guid, plans) ==
    IF \E i \in 1..Len(plans) : plans[i][1] = active_guid
    THEN LET i == CHOOSE j \in 1..Len(plans) :
                      /\ plans[j][1] = active_guid
                      /\ \A k \in 1..(j - 1) : plans[k][1] # active_guid
         IN  Ok(Selection(plans[i][2]))
    ELSE Ok(Selection("Unknown"))

\* SettingEditor::get_current_value
get_current_value(ed, b) ==
    CASE ed = "display_resolution" ->
            { Err("Failed to get current display settings"),
              Ok(Resolution(b[ed][1], b[ed][2])) }
      [] ed = "power_plan" ->
            { Err("Failed to get active power scheme"),
              Err("Could not determine active power plan"),
              Err("Failed to execute powercfg") }
            \cup { power_plan_current(b[ed], plans) : plans \in PowerPlanLists }
      [] ed = "audio_device" -> { Ok(Selection("Default Device")) }
      [] ed \in ToggleEditors ->
            { Err("Failed to query network adapter status"), Ok(Bool(b[ed])) }
      [] ed \in DnsEditors ->
            { Err("Failed to get DNS servers"),
              Ok(Selection(get_current_dns(b[ed]))) }
      [] OTHER ->
            { Err("Failed to get Wi-Fi power settings"),
              Ok(Selection(get_power_saving_mode(b[ed]))) }

\* the options built from a list of (id, name) pairs: label name, value id
pair_options(pairs) ==
    [i \in 1..Len(pairs) |-> SettingOption(pairs[i][2], Selection(pairs[i][1]))]

\* SettingEditor::get_available_options
get_available_options(ed) ==
    CASE ed = "display_resolution" ->
            { Ok(display_options(<<>>, get_display_modes(e))) :
                e \in DisplayEnumerations }
      [] ed = "power_plan" ->
            { Err("Failed to execute powercfg") }
            \cup { Ok(pair_options(plans)) : plans \in PowerPlanLists }
      [] ed = "audio_device" ->
            { Err("Failed to get audio devices"),
              Err("Failed to parse audio devices") }
            \cup { Ok(pair_options(devices)) : devices \in AudioDeviceLists }
      [] ed \in ToggleEditors -> { Ok(toggle_options) }
      [] ed \in DnsEditors -> { Ok(dns_options) }
      [] OTHER -> { Ok(wifi_power_options) }

\* SettingEditor::validate_value
validate_value(ed, value) ==
    CASE ed = "display_resolution" ->
            IF value.tag = "Resolution"
            THEN { Ok(\E i \in 1..Len(get_display_modes(e)) :
                        /\ get_display_modes(e)[i][1] = value.v[1]
                        /\ get_display_modes(e)[i][2] = value.v[2]) :
                     e \in DisplayEnumerations }
            ELSE { Ok(FALSE) }
      [] ed = "power_plan" ->
            IF value.tag = "Selection"
            THEN { Err("Failed to execute powercfg") }
                 \cup { Ok(\E i \in 1..Len(plans) : plans[i][1] = value.v) :
                          plans \in PowerPlanLists }
            ELSE { Ok(FALSE) }
      [] ed = "audio_device" -> { Ok(value.tag = "Selection") }
      [] ed \in ToggleEditors -> { Ok(value.tag = "Bool") }
      [] ed \in DnsEditors -> { Ok(value.tag = "Selection") }
      [] OTHER ->
            { Ok(IF value.tag = "Selection"
                 THEN value.v \in {"0", "1", "2", "3"}
                 ELSE FALSE) }

\* SettingEditor::set_value: the results the call can have
set_value(ed, value) ==
    CASE ed = "display_resolution" ->
            IF value.tag = "Resolution"
            THEN { Err("Display mode test failed"),
                   Err("Failed to change display settings"), Ok(TRUE) }
            ELSE { Err("Invalid value type for display settings") }
      [] ed = "power_plan" ->
            IF value.tag = "Selection"
            THEN { Err("Failed to set active power scheme"), Ok(TRUE) }
            ELSE { Err("Invalid value type for power plan") }
      [] ed = "audio_device" ->
            { Err("Audio device switching not yet implemented") }
      [] ed \in ToggleEditors ->
            IF value.tag = "Bool"
            THEN { Err("Failed to change network adapter state"), Ok(TRUE) }
            ELSE { Err("Invalid value type for network adapter toggle") }
      [] ed \in DnsEditors ->
            IF value.tag = "Selection"
            THEN { Err("Failed to set primary DNS"), Ok(TRUE) }
            ELSE { Err("Invalid value type for DNS configuration") }
      [] OTHER ->
            IF value.tag = "Selection"
            THEN { Err("Failed to set Wi-Fi power mode for AC"), Ok(TRUE) }
            ELSE { Err("Invalid value type for Wi-Fi power mode") }

\* the backing state after set_value(ed, value) returned Ok
committed(b, ed, value) ==
    IF ed \in BackedKeys THEN [b EXCEPT ![ed] = value.v] ELSE b

\* one recorded call: function, editor key ("" for the launcher), argument, result
Call(f, ed, arg, ret) == [fn |-> f, editor |-> ed, arg |-> arg, ret |-> ret]

----------------------------------------------------------------------------
(* App: the edit session *)

RECURSIVE Str(_)
\* a sequence of characters as a string
Str(chars) == IF chars = <<>> THEN "" ELSE Head(chars) \o Str(Tail(chars))

\* an EditState that starts without a pending value
EditState_without_pending(item, editor, current_value, options) ==
    [item_name |-> item.name,
     editor |-> editor,
     editor_type |-> get_editor_type(editor),
     current_value |-> current_value,
     pending_value |-> None,
     options |-> options,
     selected_option_index |-> 0,
     scroll_offset |-> 0,
     error_message |-> None]

\* the EditState built by enter_edit_mode
EditState(item, editor, current_value, options) ==
    [item_name |-> item.name,
     editor |-> editor,
     editor_type |-> get_editor_type(editor),
     current_value |-> current_value,
     pending_value |-> Some(current_value),
     options |-> options,
     selected_option_index |-> 0,
     scroll_offset |-> 0,
     error_message |-> None]

\* enter_edit_mode that stores a session without options when
\* get_available_options fails, and still returns the error
enter_edit_mode_despite_failed_options(item, b) ==
    IF IsSome(item.editor_key)
    THEN LET editor_key == Unwrap(item.editor_key)
         IN  IF IsSome(create_editor(editor_key))
             THEN LET editor == Unwrap(create_editor(editor_key))
                  IN  UNION {
                        IF ~cv.ok
                        THEN { [result |-> Err(cv.err), session |-> None,
                                calls |-> << Call("get_current_value", editor, None, cv) >>] }
                        ELSE { [result |-> IF op.ok THEN Ok(TRUE) ELSE Err(op.err),
                                session |-> Some(EditState(item, editor, cv.val,
                                                           IF op.ok THEN op.val ELSE <<>>)),
                                calls |-> << Call("get_current_value", editor, None, cv),
                                             Call("get_available_options", editor, None, op) >>]
                               : op \in get_available_options(editor) }
                        : cv \in get_current_value(editor, b) }
             ELSE { [result |-> Err("No editor available for this setting"),
                     session |-> None, calls |-> <<>>] }
    ELSE { [result |-> Err("This setting cannot be edited inline"),
            session |-> None, calls |-> <<>>] }

\* App::enter_edit_mode(item) with backing state b: the outcomes it can have.
\* session is Some(new EditState) when one was stored (input_mode becomes
\* Edit), None when edit_state and input_mode were left alone.
enter_edit_mode(item, b) ==
    IF IsSome(item.editor_key)
    THEN LET editor_key == Unwrap(item.editor_key)
         IN  IF IsSome(create_editor(editor_key))
             THEN LET editor == Unwrap(create_editor(editor_key))
                  IN  UNION {
                        IF ~cv.ok
                        THEN { [result |-> Err(cv.err), session |-> None,
                                calls |-> << Call("get_current_value", editor, None, cv) >>] }
                        ELSE { IF ~op.ok
                               THEN [result |-> Err(op.err), session |-> None,
                                     calls |-> << Call("get_current_value", editor, None, cv),
                                                  Call("get_available_options", editor, None, op) >>]
                               ELSE [result |-> Ok(TRUE),
                                     session |-> Some(EditState(item, editor, cv.val, op.val)),
                                     calls |-> << Call("get_current_value", editor, None, cv),
                                                  Call("get_available_options", editor, None, op) >>]
                               : op \in get_available_options(editor) }
                        : cv \in get_current_value(editor, b) }
             ELSE { [result |-> Err("No editor available for this setting"),
                     session |-> None, calls |-> <<>>] }
    ELSE { [result |-> Err("This setting cannot be edited inline"),
            session |-> None, calls |-> <<>>] }

\* save_edit with the result of validate_value ignored: a failed validation
\* no longer stops the commit
save_edit_ignoring_validation(es, b) ==
    IF IsSome(es) /\ IsSome(Unwrap(es).pending_value)
    THEN LET pending_value == Unwrap(Unwrap(es).pending_value)
             editor == Unwrap(es).editor
         IN  UNION {
               LET vcall == Call("validate_value", editor, Some(pending_value), vr)
               IN  IF ~vr.ok
                   THEN { [result |-> Err(vr.err), closed |-> FALSE,
                           backing |-> b, calls |-> <<vcall>>] }
                   ELSE { LET scall == Call("set_value", editor, Some(pending_value), sr)
                          IN  IF ~sr.ok
                              THEN [result |-> Err(sr.err), closed |-> FALSE,
                                    backing |-> b, calls |-> <<vcall, scall>>]
                              ELSE [result |-> Ok(TRUE), closed |-> TRUE,
                                    backing |-> committed(b, editor, pending_value),
                                    calls |-> <<vcall, scall>>]
                          : sr \in set_value(editor, pending_value) }
               : vr \in validate_value(editor, pending_value) }
    ELSE { [result |-> Ok(TRUE), closed |-> FALSE, backing |-> b, calls |-> <<>>] }

\* App::save_edit with session option es and backing state b: the outcomes.
\* closed tells whether the session was closed (input_mode Normal, edit_state
\* None, status_message the success text); backing is the backing state after.
save_edit(es, b) ==
    IF IsSome(es)
    THEN LET edit_state_ == Unwrap(es)
         IN  IF IsSome(edit_state_.pending_value)
             THEN LET pending_value == Unwrap(edit_state_.pending_value)
                      editor == edit_state_.editor
                  IN  UNION {
                        LET vcall == Call("validate_value", editor, Some(pending_value), vr)
                        IN  IF ~vr.ok
                            THEN { [result |-> Err(vr.err), closed |-> FALSE,
                                    backing |-> b, calls |-> <<vcall>>] }
                            ELSE IF vr.val
                            THEN { LET scall == Call("set_value", editor, Some(pending_value), sr)
                                   IN  IF ~sr.ok
                                       THEN [result |-> Err(sr.err), closed |-> FALSE,
                                             backing |-> b, calls |-> <<vcall, scall>>]
                                       ELSE [result |-> Ok(TRUE), closed |-> TRUE,
                                             backing |-> committed(b, editor, pending_value),
                                             calls |-> <<vcall, scall>>]
                                   : sr \in set_value(editor, pending_value) }
                            ELSE { [result |-> Err("Invalid value"), closed |-> FALSE,
                                    backing |-> b, calls |-> <<vcall>>] }
                        : vr \in validate_value(editor, pending_value) }
             ELSE { [result |-> Err("No value to save"), closed |-> FALSE,
                     backing |-> b, calls |-> <<>>] }
    ELSE { [result |-> Ok(TRUE), closed |-> FALSE, backing |-> b, calls |-> <<>>] }

\* launcher::launch_setting(item): the shell either starts the panel or fails
launch_setting(item) == { Ok(TRUE), Err("Failed to launch Settings app") }

\* n - 1 on usize: the outcomes.  On overflow a build with overflow checks
\* panics (None) and a build without them wraps.
sub_one(n) ==
    IF n >= 1 THEN { Some(n - 1) } ELSE { None, Some(WrappingSub(n, 1)) }

----------------------------------------------------------------------------
(* App::new *)

InitialBacking ==
    { [k \in BackedKeys |->
         CASE k = "display_resolution" -> <<1280, 720>>
           [] k = "power_plan" -> "guid-1"
           [] k \in ToggleEditors -> IF k = "wifi_adapter_toggle" THEN wifi ELSE TRUE
           [] k \in DnsEditors -> "dhcp"
           [] OTHER -> "0"] : wifi \in BOOLEAN }

\* the threads while run_app handles events: the terminal is set up, the
\* poller polls and the main thread is inside the loop
LoopRunning ==
    /\ main = "next"
    /\ poller = "poll"
    /\ channel = <<>>
    /\ receiver_dropped = FALSE
    /\ terminal = [raw_mode |-> TRUE, alternate_screen |-> TRUE]
    /\ tick_due = FALSE
    /\ generated = <<>>
    /\ received = <<>>

\* App::new
AppInit ==
    /\ category_index = 0
    /\ item_index = 0
    /\ filtered_items = filter_items(0, <<>>)
    /\ focus_area = "Categories"
    /\ input_mode = "Normal"
    /\ search_query = <<>>
    /\ status_message = None
    /\ should_quit = FALSE
    /\ edit_state = None
    /\ backing \in InitialBacking
    /\ running = "running"
    /\ calls = <<>>
    /\ opened_backing = None

Init == LoopRunning /\ AppInit

----------------------------------------------------------------------------
(* run_app: one action per arm of the key dispatch.  Each action is one     *)
(* iteration of the loop: receive the event, handle it, check should_quit.  *)

\* filtered_items.get(item_index).cloned()
selected_item ==
    IF item_index < Len(filtered_items)
    THEN Some(Items[filtered_items[item_index + 1]])
    ELSE None

\* the quit key setting the flag with run_app's check of it left out
NormalQuit_without_break ==
    /\ running = "running" /\ input_mode = "Normal"
    /\ should_quit' = TRUE
    /\ calls' = <<>>
    /\ UNCHANGED <<category_index, item_index, filtered_items, focus_area,
                   input_mode, search_query, status_message, edit_state,
                   backing, running>>
    /\ UNCHANGED opened_backing

\* InputMode::Normal, KeyCode::Char('q')
NormalQuit ==
    /\ running = "running" /\ input_mode = "Normal"
    /\ should_quit' = TRUE
    /\ running' = "quit"
    /\ calls' = <<>>
    /\ UNCHANGED <<category_index, item_index, filtered_items, focus_area,
                   input_mode, search_query, status_message, edit_state,
                   backing>>
    /\ UNCHANGED opened_backing

\* '/' in Normal mode that clears the status line for the search prompt
NormalSlash_clearing_status ==
    /\ running = "running" /\ input_mode = "Normal"
    /\ input_mode' = "Search"
    /\ search_query' = <<>>
    /\ status_message' = None
    /\ calls' = <<>>
    /\ UNCHANGED <<category_index, item_index, filtered_items, focus_area,
                   should_quit, edit_state, backing, running>>
    /\ UNCHANGED opened_backing

\* InputMode::Normal, KeyCode::Char('/')
NormalSlash ==
    /\ running = "running" /\ input_mode = "Normal"
    /\ input_mode' = "Search"
    /\ search_query' = <<>>
    /\ calls' = <<>>
    /\ UNCHANGED <<category_index, item_index, filtered_items, focus_area,
                   status_message, should_quit, edit_state, backing, running>>
    /\ UNCHANGED opened_backing

\* InputMode::Normal, KeyCode::Tab
NormalTab ==
    /\ running = "running" /\ input_mode = "Normal"
    /\ focus_area' = IF focus_area = "Categories" THEN "Items" ELSE "Categories"
    /\ calls' = <<>>
    /\ UNCHANGED <<category_index, item_index, filtered_items, input_mode,
                   search_query, status_message, should_quit, edit_state,
                   backing, running>>
    /\ UNCHANGED opened_backing

\* the item_index after Down with focus on Items, given the view's length:
\* the outcomes, None when the subtraction panics
items_down(index, len) ==
    { IF IsSome(last)
      THEN Some(IF index < Unwrap(last) THEN index + 1 ELSE index)
      ELSE None : last \in sub_one(len) }

\* InputMode::Normal, KeyCode::Down
NormalDown ==
    /\ running = "running" /\ input_mode = "Normal"
    /\ calls' = <<>>
    /\ IF focus_area = "Categories"
       THEN /\ IF category_index < Len(Categories) - 1
               THEN /\ category_index' = category_index + 1
                    /\ filtered_items' = filter_items(category_index + 1, search_query)
                    /\ item_index' = 0
               ELSE UNCHANGED <<category_index, filtered_items, item_index>>
            /\ UNCHANGED running
       ELSE /\ \E r \in items_down(item_index, Len(filtered_items)) :
                   IF IsSome(r)
                   THEN /\ Unwrap(r) <= Len(filtered_items) + MaxRunaway
                        /\ item_index' = Unwrap(r)
                        /\ UNCHANGED running
                   ELSE /\ running' = "panicked"
                        /\ UNCHANGED item_index
            /\ UNCHANGED <<category_index, filtered_items>>
    /\ UNCHANGED <<focus_area, input_mode, search_query, status_message,
                   should_quit, edit_state, backing>>
    /\ UNCHANGED opened_backing

\* Up whose category move shows the whole category, the query left aside
NormalUp_ignoring_query ==
    /\ running = "running" /\ input_mode = "Normal"
    /\ calls' = <<>>
    /\ IF focus_area = "Categories"
       THEN IF category_index > 0
            THEN /\ category_index' = category_index - 1
                 /\ filtered_items' = filter_items(category_index - 1, <<>>)
                 /\ item_index' = 0
            ELSE UNCHANGED <<category_index, filtered_items, item_index>>
       ELSE /\ item_index' = IF item_index > 0 THEN item_index - 1 ELSE item_index
            /\ UNCHANGED <<category_index, filtered_items>>
    /\ UNCHANGED <<focus_area, input_mode, search_query, status_message,
                   should_quit, edit_state, backing, running>>
    /\ UNCHANGED opened_backing

\* InputMode::Normal, KeyCode::Up
NormalUp ==
    /\ running = "running" /\ input_mode = "Normal"
    /\ calls' = <<>>
    /\ IF focus_area = "Categories"
       THEN IF category_index > 0
            THEN /\ category_index' = category_index - 1
                 /\ filtered_items' = filter_items(category_index - 1, search_query)
                 /\ item_index' = 0
            ELSE UNCHANGED <<category_index, filtered_items, item_index>>
       ELSE /\ item_index' = IF item_index > 0 THEN item_index - 1 ELSE item_index
            /\ UNCHANGED <<category_index, filtered_items>>
    /\ UNCHANGED <<focus_area, input_mode, search_query, status_message,
                   should_quit, edit_state, backing, running>>
    /\ UNCHANGED opened_backing

\* the state change of a call of enter_edit_mode with outcome o by a caller
\* that turns an error into the status message
ApplyEnter(o) ==
    /\ edit_state' = IF IsSome(o.session) THEN o.session ELSE edit_state
    /\ input_mode' = IF IsSome(o.session) THEN "Edit" ELSE input_mode
    /\ status_message' = IF o.result.ok THEN status_message
                         ELSE Some("Error: " \o o.result.err)
    /\ calls' = o.calls
    /\ opened_backing' = IF IsSome(o.session) THEN Some(backing) ELSE opened_backing

\* Enter handing every selected item to the launcher, can_edit_inline unread
NormalEnter_always_launching ==
    /\ running = "running" /\ input_mode = "Normal"
    /\ IF focus_area = "Items" /\ IsSome(selected_item)
       THEN LET item == Unwrap(selected_item)
            IN  \E r \in launch_setting(item) :
                    /\ status_message' = IF r.ok THEN status_message
                                         ELSE Some("Error: " \o r.err)
                    /\ calls' = << Call("launch_setting", "",
                                        Some(filtered_items[item_index + 1]), r) >>
                    /\ UNCHANGED <<edit_state, input_mode, opened_backing>>
       ELSE /\ calls' = <<>>
            /\ UNCHANGED <<edit_state, input_mode, status_message, opened_backing>>
    /\ UNCHANGED <<category_index, item_index, filtered_items, focus_area,
                   search_query, should_quit, backing, running>>

\* InputMode::Normal, KeyCode::Enter
NormalEnter ==
    /\ running = "running" /\ input_mode = "Normal"
    /\ IF focus_area = "Items" /\ IsSome(selected_item)
       THEN LET item == Unwrap(selected_item)
            IN  IF item.can_edit_inline
                THEN \E o \in enter_edit_mode(item, backing) : ApplyEnter(o)
                ELSE \E r \in launch_setting(item) :
                        /\ status_message' = IF r.ok THEN status_message
                                             ELSE Some("Error: " \o r.err)
                        /\ calls' = << Call("launch_setting", "",
                                            Some(filtered_items[item_index + 1]), r) >>
                        /\ UNCHANGED <<edit_state, input_mode, opened_backing>>
       ELSE /\ calls' = <<>>
            /\ UNCHANGED <<edit_state, input_mode, status_message, opened_backing>>
    /\ UNCHANGED <<category_index, item_index, filtered_items, focus_area,
                   search_query, should_quit, backing, running>>

\* the quick-edit key falling back to the launcher as Enter does
NormalQuickEdit_falling_back_to_launcher ==
    /\ running = "running" /\ input_mode = "Normal"
    /\ IF focus_area = "Items" /\ IsSome(selected_item)
       THEN LET item == Unwrap(selected_item)
            IN  IF item.can_edit_inline
                THEN \E o \in enter_edit_mode(item, backing) : ApplyEnter(o)
                ELSE \E r \in launch_setting(item) :
                        /\ status_message' = IF r.ok THEN status_message
                                             ELSE Some("Error: " \o r.err)
                        /\ calls' = << Call("launch_setting", "",
                                            Some(filtered_items[item_index + 1]), r) >>
                        /\ UNCHANGED <<edit_state, input_mode, opened_backing>>
       ELSE /\ calls' = <<>>
            /\ UNCHANGED <<edit_state, input_mode, status_message, opened_backing>>
    /\ UNCHANGED <<category_index, item_index, filtered_items, focus_area,
                   search_query, should_quit, backing, running>>

\* InputMode::Normal, KeyCode::Char('e')
NormalQuickEdit ==
    /\ running = "running" /\ input_mode = "Normal"
    /\ IF focus_area = "Items" /\ IsSome(selected_item)
       THEN LET item == Unwrap(selected_item)
            IN  IF item.can_edit_inline
                THEN \E o \in enter_edit_mode(item, backing) : ApplyEnter(o)
                ELSE /\ status_message' = Some("This setting cannot be edited inline")
                     /\ calls' = <<>>
                     /\ UNCHANGED <<edit_state, input_mode, opened_backing>>
       ELSE /\ calls' = <<>>
            /\ UNCHANGED <<edit_state, input_mode, status_message, opened_backing>>
    /\ UNCHANGED <<category_index, item_index, filtered_items, focus_area,
                   search_query, should_quit, backing, running>>

\* InputMode::Normal, any other key
NormalOther ==
    /\ running = "running" /\ input_mode = "Normal"
    /\ calls' = <<>>
    /\ UNCHANGED <<category_index, item_index, filtered_items, focus_area,
                   input_mode, search_query, status_message, should_quit,
                   edit_state, backing, running>>
    /\ UNCHANGED opened_backing

----------------------------------------------------------------------------
(* run_app: InputMode::Search *)

\* String::pop
pop(q) == IF q = <<>> THEN q ELSE SubSeq(q, 1, Len(q) - 1)

\* InputMode::Search, KeyCode::Enter
SearchEnter ==
    /\ running = "running" /\ input_mode = "Search"
    /\ input_mode' = "Normal"
    /\ calls' = <<>>
    /\ UNCHANGED <<category_index, item_index, filtered_items, focus_area,
                   search_query, status_message, should_quit, edit_state,
                   backing, running>>
    /\ UNCHANGED opened_backing

\* Esc in Search mode clearing the query without the call of filter_items
SearchEsc_without_filter ==
    /\ running = "running" /\ input_mode = "Search"
    /\ input_mode' = "Normal"
    /\ search_query' = <<>>
    /\ calls' = <<>>
    /\ UNCHANGED <<category_index, item_index, filtered_items, focus_area,
                   status_message, should_quit, edit_state, backing, running>>
    /\ UNCHANGED opened_backing

\* InputMode::Search, KeyCode::Esc
SearchEsc ==
    /\ running = "running" /\ input_mode = "Search"
    /\ input_mode' = "Normal"
    /\ search_query' = <<>>
    /\ filtered_items' = filter_items(category_index, <<>>)
    /\ item_index' = 0
    /\ calls' = <<>>
    /\ UNCHANGED <<category_index, focus_area, status_message, should_quit,
                   edit_state, backing, running>>
    /\ UNCHANGED opened_backing

\* a character key in Search mode that acts on 'q' as Normal mode does
SearchKey_quitting_on_q(chars) ==
    /\ running = "running" /\ input_mode = "Search"
    /\ Len(search_query) < MaxQueryLen
    /\ \E c \in chars :
          /\ search_query' = Append(search_query, c)
          /\ filtered_items' = filter_items(category_index, Append(search_query, c))
          /\ should_quit' = (c = "q")
          /\ running' = IF c = "q" THEN "quit" ELSE running
    /\ item_index' = 0
    /\ calls' = <<>>
    /\ UNCHANGED <<category_index, focus_area, input_mode, status_message,
                   edit_state, backing>>
    /\ UNCHANGED opened_backing

\* InputMode::Search, KeyCode::Char(c) for a character c of chars
SearchKey(chars) ==
    /\ running = "running" /\ input_mode = "Search"
    /\ Len(search_query) < MaxQueryLen
    /\ \E c \in chars :
          /\ search_query' = Append(search_query, c)
          /\ filtered_items' = filter_items(category_index, Append(search_query, c))
    /\ item_index' = 0
    /\ calls' = <<>>
    /\ UNCHANGED <<category_index, focus_area, input_mode, status_message,
                   should_quit, edit_state, backing, running>>
    /\ UNCHANGED opened_backing

\* InputMode::Search, KeyCode::Char(c) for the characters of KeyChars
SearchChar == SearchKey(KeyChars)

\* InputMode::Search, KeyCode::Backspace
SearchBackspace ==
    /\ running = "running" /\ input_mode = "Search"
    /\ search_query' = pop(search_query)
    /\ filtered_items' = filter_items(category_index, pop(search_query))
    /\ item_index' = 0
    /\ calls' = <<>>
    /\ UNCHANGED <<category_index, focus_area, input_mode, status_message,
                   should_quit, edit_state, backing, running>>
    /\ UNCHANGED opened_backing

\* InputMode::Search, any other key
SearchOther ==
    /\ running = "running" /\ input_mode = "Search"
    /\ calls' = <<>>
    /\ UNCHANGED <<category_index, item_index, filtered_items, focus_area,
                   input_mode, search_query, status_message, should_quit,
                   edit_state, backing, running>>
    /\ UNCHANGED opened_backing

----------------------------------------------------------------------------
(* run_app: InputMode::Edit.  Every arm is inside                           *)
(* `if let Some(edit_state) = &mut app.edit_state`.                         *)

\* the confirm key running the Toggle arm whatever the editor type
edit_confirm_toggling_any_kind(es) ==
    [es EXCEPT !.pending_value =
        IF IsSome(es.pending_value) /\ Unwrap(es.pending_value).tag = "Bool"
        THEN Some(Bool(~Unwrap(es.pending_value).v))
        ELSE Some(Bool(TRUE))]

\* the confirm key whose Toggle arm sets true instead of flipping
edit_confirm_setting_true(es) ==
    CASE es.editor_type.kind = "Toggle" ->
            [es EXCEPT !.pending_value = Some(Bool(TRUE))]
      [] es.editor_type.kind \in {"Dropdown", "ResolutionPicker"} ->
            IF es.selected_option_index < Len(es.options)
            THEN [es EXCEPT !.pending_value =
                    Some(es.options[es.selected_option_index + 1].value)]
            ELSE es
      [] OTHER -> es

\* the confirm key whose picker arm takes the first option, not the selected
edit_confirm_taking_first_option(es) ==
    CASE es.editor_type.kind = "Toggle" ->
            [es EXCEPT !.pending_value =
                IF IsSome(es.pending_value) /\ Unwrap(es.pending_value).tag = "Bool"
                THEN Some(Bool(~Unwrap(es.pending_value).v))
                ELSE Some(Bool(TRUE))]
      [] es.editor_type.kind \in {"Dropdown", "ResolutionPicker"} ->
            IF es.options # <<>>
            THEN [es EXCEPT !.pending_value = Some(es.options[1].value)]
            ELSE es
      [] OTHER -> es

\* KeyCode::Enter | KeyCode::Char(' ') on session es: the session after
edit_confirm(es) ==
    CASE es.editor_type.kind = "Toggle" ->
            [es EXCEPT !.pending_value =
                IF IsSome(es.pending_value) /\ Unwrap(es.pending_value).tag = "Bool"
                THEN Some(Bool(~Unwrap(es.pending_value).v))
                ELSE Some(Bool(TRUE))]
      [] es.editor_type.kind \in {"Dropdown", "ResolutionPicker"} ->
            IF es.selected_option_index < Len(es.options)
            THEN [es EXCEPT !.pending_value =
                    Some(es.options[es.selected_option_index + 1].value)]
            ELSE es
      [] OTHER -> es

\* KeyCode::Up that drops the pending value when it moves the selection
edit_up_clearing_pending(es) ==
    IF es.selected_option_index > 0
    THEN [es EXCEPT !.selected_option_index = es.selected_option_index - 1,
                    !.pending_value = None]
    ELSE es

\* KeyCode::Up on session es
edit_up(es) ==
    IF es.selected_option_index > 0
    THEN [es EXCEPT !.selected_option_index = es.selected_option_index - 1]
    ELSE es

\* KeyCode::Down on session es: the outcomes, None when the subtraction panics
edit_down(es) ==
    { IF IsSome(last)
      THEN Some(IF es.selected_option_index < Unwrap(last)
                THEN [es EXCEPT !.selected_option_index = es.selected_option_index + 1]
                ELSE es)
      ELSE None : last \in sub_one(Len(es.options)) }

\* the adjustment of a slider key: step * 0.1 with Shift, else step
\* (Float values are counted in thousandths)
adjustment(step, shift) == IF shift THEN step \div 10 ELSE step

\* KeyCode::Left on session es
edit_left(es, shift) ==
    IF /\ es.editor_type.kind = "Slider"
       /\ IsSome(es.pending_value)
       /\ Unwrap(es.pending_value).tag = "Float"
    THEN LET val == Unwrap(es.pending_value).v
             new == val - adjustment(es.editor_type.step, shift)
         IN  [es EXCEPT !.pending_value =
                Some(Float(IF new > es.editor_type.min THEN new
                           ELSE es.editor_type.min))]
    ELSE es

\* KeyCode::Right that forgets to clamp at max
edit_right_unclamped(es, shift) ==
    IF /\ es.editor_type.kind = "Slider"
       /\ IsSome(es.pending_value)
       /\ Unwrap(es.pending_value).tag = "Float"
    THEN [es EXCEPT !.pending_value =
            Some(Float(Unwrap(es.pending_value).v
                       + adjustment(es.editor_type.step, shift)))]
    ELSE es

\* KeyCode::Right on session es
edit_right(es, shift) ==
    IF /\ es.editor_type.kind = "Slider"
       /\ IsSome(es.pending_value)
       /\ Unwrap(es.pending_value).tag = "Float"
    THEN LET val == Unwrap(es.pending_value).v
             new == val + adjustment(es.editor_type.step, shift)
         IN  [es EXCEPT !.pending_value =
                Some(Float(IF new < es.editor_type.max THEN new
                           ELSE es.editor_type.max))]
    ELSE es

\* Edit-mode arms that put the selection back on the first item
EditFrame_resetting_item_index ==
    /\ item_index' = 0
    /\ UNCHANGED <<category_index, filtered_items, focus_area, search_query,
                   should_quit>>

\* what an Edit-mode arm leaves alone besides the session
EditFrame ==
    UNCHANGED <<category_index, item_index, filtered_items, focus_area,
                search_query, should_quit>>

\* an Edit-mode arm that only rewrites the session (or does nothing)
EditKey(new_session) ==
    /\ running = "running" /\ input_mode = "Edit"
    /\ edit_state' = IF IsSome(edit_state) THEN new_session ELSE edit_state
    /\ calls' = <<>>
    /\ EditFrame
    /\ UNCHANGED <<input_mode, status_message, backing, running, opened_backing>>

\* cancel_edit that forgets the status message
cancel_edit_silent ==
    /\ input_mode' = "Normal"
    /\ edit_state' = None
    /\ status_message' = status_message
    /\ opened_backing' = None

\* cancel_edit that forgets to drop the session
cancel_edit_keeping_session ==
    /\ input_mode' = "Normal"
    /\ edit_state' = edit_state
    /\ status_message' = Some("Edit cancelled")
    /\ opened_backing' = opened_backing

\* App::cancel_edit
cancel_edit ==
    /\ input_mode' = "Normal"
    /\ edit_state' = None
    /\ status_message' = Some("Edit cancelled")
    /\ opened_backing' = None

\* InputMode::Edit, KeyCode::Esc
EditEsc ==
    /\ running = "running" /\ input_mode = "Edit"
    /\ IF IsSome(edit_state)
       THEN cancel_edit
       ELSE UNCHANGED <<input_mode, edit_state, status_message, opened_backing>>
    /\ calls' = <<>>
    /\ EditFrame
    /\ UNCHANGED <<backing, running>>

\* the text of the success message of save_edit, after its check mark
updated_message(es) == Str(es.item_name) \o " updated successfully"

\* the save key giving the session up when save_edit returns an error
EditSave_closing_on_error ==
    /\ running = "running" /\ input_mode = "Edit"
    /\ IF IsSome(edit_state)
       THEN \E o \in save_edit(edit_state, backing) :
               /\ backing' = o.backing
               /\ calls' = o.calls
               /\ IF o.closed
                  THEN /\ status_message' = Some(updated_message(Unwrap(edit_state)))
                       /\ input_mode' = "Normal"
                       /\ edit_state' = None
                       /\ opened_backing' = None
                  ELSE /\ status_message' =
                             IF o.result.ok THEN status_message
                             ELSE Some("Save failed: " \o o.result.err)
                       /\ input_mode' = "Normal"
                       /\ edit_state' = None
                       /\ opened_backing' = None
       ELSE /\ calls' = <<>>
            /\ UNCHANGED <<backing, status_message, input_mode, edit_state,
                           opened_backing>>
    /\ EditFrame
    /\ UNCHANGED running

\* InputMode::Edit, KeyCode::Char('s') | KeyCode::Char('S')
EditSave ==
    /\ running = "running" /\ input_mode = "Edit"
    /\ IF IsSome(edit_state)
       THEN \E o \in save_edit(edit_state, backing) :
               /\ backing' = o.backing
               /\ calls' = o.calls
               /\ IF o.closed
                  THEN /\ status_message' = Some(updated_message(Unwrap(edit_state)))
                       /\ input_mode' = "Normal"
                       /\ edit_state' = None
                       /\ opened_backing' = None
                  ELSE /\ status_message' =
                             IF o.result.ok THEN status_message
                             ELSE Some("Save failed: " \o o.result.err)
                       /\ UNCHANGED <<input_mode, edit_state, opened_backing>>
       ELSE /\ calls' = <<>>
            /\ UNCHANGED <<backing, status_message, input_mode, edit_state,
                           opened_backing>>
    /\ EditFrame
    /\ UNCHANGED running

\* a confirm key that writes the value it selects through to the editor
EditConfirm_committing ==
    /\ running = "running" /\ input_mode = "Edit"
    /\ IsSome(edit_state)
    /\ LET es == edit_confirm(Unwrap(edit_state))
       IN  /\ IsSome(es.pending_value)
           /\ edit_state' = Some(es)
           /\ calls' = << Call("set_value", es.editor, es.pending_value, Ok(TRUE)) >>
           /\ backing' = committed(backing, es.editor, Unwrap(es.pending_value))
    /\ EditFrame
    /\ UNCHANGED <<input_mode, status_message, running, opened_backing>>

\* InputMode::Edit, KeyCode::Enter | KeyCode::Char(' ')
EditConfirm == EditKey(Some(edit_confirm(Unwrap(edit_state))))

\* InputMode::Edit, KeyCode::Up
EditUp == EditKey(Some(edit_up(Unwrap(edit_state))))

\* InputMode::Edit, KeyCode::Down
EditDown ==
    /\ running = "running" /\ input_mode = "Edit"
    /\ calls' = <<>>
    /\ IF IsSome(edit_state)
       THEN \E r \in edit_down(Unwrap(edit_state)) :
                IF IsSome(r)
                THEN /\ Unwrap(r).selected_option_index
                           <= Len(Unwrap(r).options) + MaxRunaway
                     /\ edit_state' = Some(Unwrap(r))
                     /\ UNCHANGED running
                ELSE /\ running' = "panicked"
                     /\ UNCHANGED edit_state
       ELSE UNCHANGED <<edit_state, running>>
    /\ EditFrame
    /\ UNCHANGED <<input_mode, status_message, backing>>
    /\ UNCHANGED opened_backing

\* InputMode::Edit, KeyCode::Left
EditLeft == \E shift \in BOOLEAN : EditKey(Some(edit_left(Unwrap(edit_state), shift)))

\* InputMode::Edit, KeyCode::Right
EditRight == \E shift \in BOOLEAN : EditKey(Some(edit_right(Unwrap(edit_state), shift)))

\* InputMode::Edit, any other key
EditOther == EditKey(edit_state)

----------------------------------------------------------------------------
(* run_app: the other events *)

\* a Tick, mouse or resize event that ends Edit mode, as a timeout would
OtherEvent_leaving_edit_mode ==
    /\ running = "running"
    /\ calls' = <<>>
    /\ input_mode' = IF input_mode = "Edit" THEN "Normal" ELSE input_mode
    /\ UNCHANGED <<category_index, item_index, filtered_items, focus_area,
                   search_query, status_message, should_quit,
                   edit_state, backing, running>>
    /\ UNCHANGED opened_backing

\* a Tick, mouse or resize event that puts the selection back on the first
\* item and drops the pending value of an open session
OtherEvent_resetting ==
    /\ running = "running"
    /\ calls' = <<>>
    /\ item_index' = 0
    /\ edit_state' = IF IsSome(edit_state)
                     THEN Some([Unwrap(edit_state) EXCEPT !.pending_value =
                                  Some(Unwrap(edit_state).current_value)])
                     ELSE edit_state
    /\ UNCHANGED <<category_index, filtered_items, focus_area,
                   input_mode, search_query, status_message, should_quit,
                   backing, running>>
    /\ UNCHANGED opened_backing

\* Event::Tick, Event::Mouse, Event::Resize
OtherEvent ==
    /\ running = "running"
    /\ calls' = <<>>
    /\ UNCHANGED <<category_index, item_index, filtered_items, focus_area,
                   input_mode, search_query, status_message, should_quit,
                   edit_state, backing, running>>
    /\ UNCHANGED opened_backing

\* the handling of one event of any kind, the threads left aside
App(handler) == handler /\ UNCHANGED thread_vars

Next ==
    \/ App(NormalQuit) \/ App(NormalSlash) \/ App(NormalTab)
    \/ App(NormalDown) \/ App(NormalUp)
    \/ App(NormalEnter) \/ App(NormalQuickEdit) \/ App(NormalOther)
    \/ App(SearchEnter) \/ App(SearchEsc) \/ App(SearchChar)
    \/ App(SearchBackspace) \/ App(SearchOther)
    \/ App(EditEsc) \/ App(EditSave) \/ App(EditConfirm)
    \/ App(EditUp) \/ App(EditDown)
    \/ App(EditLeft) \/ App(EditRight) \/ App(EditOther)
    \/ App(OtherEvent)

Spec == Init /\ [][Next]_vars

----------------------------------------------------------------------------
(* Slider sessions.  create_editor registers no editor whose type is       *)
(* EditorType::Slider, so the Left and Right arms are exercised on the     *)
(* sessions enter_edit_mode would store for such an editor: its type and   *)
(* the current value it reports, which nothing checks against the type.    *)

\* EditorType::Slider { min, max, step }, in thousandths
SliderTypes ==
    { [kind |-> "Slider", min |-> 0, max |-> 100000, step |-> step] :
        step \in {10000, 2500} }

\* the current values a slider editor reports
SliderValues == { Float(95000), Float(0), Float(150000), Integer(95) }

\* the sessions stored for the first item by a slider editor
SliderSessions ==
    { [EditState(Items[1], "slider", current_value, <<>>)
         EXCEPT !.editor_type = editor_type] :
        editor_type \in SliderTypes, current_value \in SliderValues }

\* the state after Enter on the first item has opened a slider session
SliderInit ==
    /\ LoopRunning
    /\ category_index = 0
    /\ item_index = 0
    /\ filtered_items = filter_items(0, <<>>)
    /\ focus_area = "Items"
    /\ input_mode = "Edit"
    /\ search_query = <<>>
    /\ status_message = None
    /\ should_quit = FALSE
    /\ edit_state \in { Some(es) : es \in SliderSessions }
    /\ backing \in InitialBacking
    /\ running = "running"
    /\ calls = <<>>
    /\ opened_backing = Some(backing)

SliderNext == App(EditLeft) \/ App(EditRight) \/ App(EditOther)

SliderSpec == SliderInit /\ [][SliderNext]_vars

----------------------------------------------------------------------------
(* The threads: main() and run_app's loop on the main thread, the poller   *)
(* thread of EventHandler::new, the channel between them and the terminal  *)
(* they both switch.  The calls on the terminal are taken to succeed.      *)

\* crossterm::event::Event::Key
KeyEvent(code, kind) == [type |-> "Key", code |-> code, kind |-> kind]

\* what event::read can return in the model
InputEvents ==
    { KeyEvent("q", "Press"), KeyEvent("q", "Release"), KeyEvent("Tab", "Press"),
      [type |-> "Mouse"], [type |-> "Resize"], [type |-> "FocusGained"] }

\* Event::Tick
Tick == [type |-> "Tick"]

\* the match of the poller on the event read: is it sent on
forwarded(e) ==
    CASE e.type = "Key" -> e.kind = "Press"
      [] e.type \in {"Mouse", "Resize"} -> TRUE
      [] OTHER -> FALSE

\* a channel that hands out the newest event first
send_newest_first(chan, e) == <<e>> \o chan

\* mpsc::Sender::send on a channel whose receiver lives
send(chan, e) == Append(chan, e)

\* the steps of the panic hook, then the end of the panicking thread
HookSteps == {"hook_enable_raw", "hook_enter_screen", "hook_disable_raw",
              "hook_leave_screen"}

\* the process has not ended
Alive == main # "exited"

\* event::poll(timeout) in the poller: an event is ready, or the timeout
\* (what is left of the tick interval) runs out, or the call fails
PollerPoll ==
    /\ Alive /\ poller = "poll"
    /\ \/ /\ Len(generated) < MaxEvents
          /\ poller' = "read"
          /\ tick_due' \in {tick_due, TRUE}
       \/ /\ poller' = "tick"
          /\ tick_due' = TRUE
       \/ /\ poller' = "hook_enable_raw"
          /\ UNCHANGED tick_due
    /\ UNCHANGED <<main, channel, receiver_dropped, terminal, generated, received>>
    /\ UNCHANGED app_vars

\* event::read() and the send of what it returned; the tick interval may
\* run out meanwhile
PollerRead ==
    /\ Alive /\ poller = "read"
    /\ tick_due' \in {tick_due, TRUE}
    /\ \/ \E e \in InputEvents :
             /\ generated' = Append(generated, e)
             /\ IF forwarded(e)
                THEN IF receiver_dropped
                     THEN poller' = "hook_enable_raw" /\ UNCHANGED channel
                     ELSE /\ Len(channel) < MaxQueue
                          /\ channel' = send(channel, e)
                          /\ poller' = "tick"
                ELSE poller' = "tick" /\ UNCHANGED channel
       \/ /\ poller' = "hook_enable_raw"
          /\ UNCHANGED <<generated, channel>>
    /\ UNCHANGED <<main, receiver_dropped, terminal, received>>
    /\ UNCHANGED app_vars

\* a tick check that starts the next interval without sending the Tick
PollerTick_without_send ==
    /\ Alive /\ poller = "tick"
    /\ tick_due' = FALSE
    /\ poller' = "poll"
    /\ UNCHANGED <<generated, channel>>
    /\ UNCHANGED <<main, receiver_dropped, terminal, received>>
    /\ UNCHANGED app_vars

\* the tick check at the end of the poller's loop body
PollerTick ==
    /\ Alive /\ poller = "tick"
    /\ IF tick_due
       THEN /\ Len(generated) < MaxEvents
            /\ generated' = Append(generated, Tick)
            /\ IF receiver_dropped
               THEN poller' = "hook_enable_raw" /\ UNCHANGED <<channel, tick_due>>
               ELSE /\ Len(channel) < MaxQueue
                    /\ channel' = send(channel, Tick)
                    /\ tick_due' = FALSE
                    /\ poller' = "poll"
       ELSE poller' = "poll" /\ UNCHANGED <<generated, channel, tick_due>>
    /\ UNCHANGED <<main, receiver_dropped, terminal, received>>
    /\ UNCHANGED app_vars

\* the hook of setup_panic_handler on the panicking poller thread:
\* setup_terminal, then restore_terminal, one terminal call at a time
PollerHook ==
    /\ Alive /\ poller \in HookSteps
    /\ CASE poller = "hook_enable_raw" ->
               /\ terminal' = [terminal EXCEPT !.raw_mode = TRUE]
               /\ poller' = "hook_enter_screen"
         [] poller = "hook_enter_screen" ->
               /\ terminal' = [terminal EXCEPT !.alternate_screen = TRUE]
               /\ poller' = "hook_disable_raw"
         [] poller = "hook_disable_raw" ->
               /\ terminal' = [terminal EXCEPT !.raw_mode = FALSE]
               /\ poller' = "hook_leave_screen"
         [] OTHER ->
               /\ terminal' = [terminal EXCEPT !.alternate_screen = FALSE]
               /\ poller' = "dead"
    /\ UNCHANGED <<main, channel, receiver_dropped, tick_due, generated, received>>
    /\ UNCHANGED app_vars

\* main(): setup_terminal, one terminal call at a time
MainSetup ==
    /\ main \in {"enable_raw", "enter_screen"}
    /\ IF main = "enable_raw"
       THEN /\ terminal' = [terminal EXCEPT !.raw_mode = TRUE]
            /\ main' = "enter_screen"
       ELSE /\ terminal' = [terminal EXCEPT !.alternate_screen = TRUE]
            /\ main' = "spawn"
    /\ UNCHANGED <<poller, channel, receiver_dropped, tick_due, generated, received>>
    /\ UNCHANGED app_vars

\* main(): EventHandler::new starts the poller; App::new; run_app is entered
MainSpawn ==
    /\ main = "spawn"
    /\ poller' = "poll"
    /\ main' = "draw"
    /\ UNCHANGED <<channel, receiver_dropped, terminal, tick_due, generated, received>>
    /\ UNCHANGED app_vars

\* run_app: terminal.draw at the top of the loop
MainDraw ==
    /\ main = "draw"
    /\ main' = "next"
    /\ UNCHANGED <<poller, channel, receiver_dropped, terminal, tick_due,
                   generated, received>>
    /\ UNCHANGED app_vars

\* the handler run_app runs for event e in Normal mode, for the events of
\* InputEvents
Handle(e) ==
    CASE e.type = "Key" /\ e.code = "q" -> NormalQuit
      [] e.type = "Key" /\ e.code = "Tab" -> NormalTab
      [] OTHER -> OtherEvent

\* a loop that waits for the next event right after handling one, the draw
\* at the top of the loop left out
MainNext_without_redraw ==
    /\ main = "next"
    /\ channel # <<>>
    /\ received' = Append(received, Head(channel))
    /\ Handle(Head(channel))
    /\ IF running' = "running"
       THEN /\ main' = "next"
            /\ channel' = Tail(channel)
            /\ UNCHANGED receiver_dropped
       ELSE /\ main' = "disable_raw"
            /\ channel' = <<>>
            /\ receiver_dropped' = TRUE
    /\ UNCHANGED <<poller, terminal, tick_due, generated>>

\* run_app: event_handler.next() returns the oldest event, the event is
\* handled and should_quit is checked; when the loop is left run_app returns
\* and drops the EventHandler with what the channel still holds
MainNext ==
    /\ main = "next"
    /\ channel # <<>>
    /\ received' = Append(received, Head(channel))
    /\ Handle(Head(channel))
    /\ IF running' = "running"
       THEN /\ main' = "draw"
            /\ channel' = Tail(channel)
            /\ UNCHANGED receiver_dropped
       ELSE /\ main' = "disable_raw"
            /\ channel' = <<>>
            /\ receiver_dropped' = TRUE
    /\ UNCHANGED <<poller, terminal, tick_due, generated>>

\* main(): restore_terminal, one terminal call at a time, then the return
\* from main, which ends the process and every thread with it
MainRestore ==
    /\ main \in {"disable_raw", "leave_screen", "return"}
    /\ CASE main = "disable_raw" ->
               /\ terminal' = [terminal EXCEPT !.raw_mode = FALSE]
               /\ main' = "leave_screen"
         [] main = "leave_screen" ->
               /\ terminal' = [terminal EXCEPT !.alternate_screen = FALSE]
               /\ main' = "return"
         [] OTHER ->
               /\ main' = "exited"
               /\ UNCHANGED terminal
    /\ UNCHANGED <<poller, channel, receiver_dropped, tick_due, generated, received>>
    /\ UNCHANGED app_vars

\* the process at its start: main() before setup_terminal, no poller yet
LoopInit ==
    /\ main = "enable_raw"
    /\ poller = "unspawned"
    /\ channel = <<>>
    /\ receiver_dropped = FALSE
    /\ terminal = [raw_mode |-> FALSE, alternate_screen |-> FALSE]
    /\ tick_due = FALSE
    /\ generated = <<>>
    /\ received = <<>>
    /\ AppInit

LoopNext ==
    \/ MainSetup \/ MainSpawn \/ MainDraw \/ MainNext \/ MainRestore
    \/ PollerPoll \/ PollerRead \/ PollerTick \/ PollerHook

LoopSpec == LoopInit /\ [][LoopNext]_vars

----------------------------------------------------------------------------
(* Properties *)

\* the items of the view, as positions in Items
ViewSet == { filtered_items[i] : i \in 1..Len(filtered_items) }

\* C1: in every reachable state item_index is 0 when the filtered view is
\* empty and below the view's length otherwise.
C1_ItemIndexInRange ==
    IF filtered_items = <<>>
    THEN item_index = 0
    ELSE item_index < Len(filtered_items)

\* C2: in every reachable state the filtered view is the filter of all items
\* by the selected category and the current search text, so with an empty
\* search text it holds every item of the selected category.
C2_ViewIsFilterOfQuery ==
    /\ filtered_items = filter_items(category_index, search_query)
    /\ search_query = <<>> =>
          ViewSet = { i \in 1..Len(Items) :
                        Items[i].category = Categories[category_index + 1] }

\* the call c returned Ok(true)
ReturnedTrue(c) == c.ret.ok /\ c.ret.val = TRUE

\* the first call of a step was validate_value
ValidatedFirst(cs) == cs # <<>> /\ cs[1].fn = "validate_value"

\* C3: set_value is called only by Save, as its second call, right after
\* validate_value returned true in that Save for the same editor and the same
\* value, the session's pending_value; when validate_value returns false or
\* fails, set_value is not called and the backing state is unchanged; the
\* backing state changes only by a set_value that succeeded.
C3_SetValueOnlyAfterValidation ==
    [][ /\ \A i \in 1..Len(calls') :
              calls'[i].fn = "set_value" =>
                 /\ EditSave
                 /\ i = 2
                 /\ ValidatedFirst(calls')
                 /\ ReturnedTrue(calls'[1])
                 /\ calls'[1].editor = calls'[2].editor
                 /\ calls'[1].arg = calls'[2].arg
                 /\ IsSome(edit_state)
                 /\ calls'[2].arg = Unwrap(edit_state).pending_value
                 /\ calls'[2].editor = Unwrap(edit_state).editor
        /\ (ValidatedFirst(calls') /\ ~ReturnedTrue(calls'[1])) =>
              (Len(calls') = 1 /\ backing' = backing)
        /\ backing' # backing =>
              (Len(calls') = 2 /\ calls'[2].fn = "set_value" /\ calls'[2].ret.ok)
      ]_vars

\* C3 witness: a Save has committed a value through set_value
C3_Witness ==
    /\ Len(calls) = 2
    /\ calls[2].fn = "set_value"
    /\ calls[2].ret.ok
    /\ input_mode = "Normal"

\* validate_value returned Ok(false) as the first call of the step
ValidationRefused(cs) ==
    ValidatedFirst(cs) /\ cs[1].ret.ok /\ cs[1].ret.val = FALSE

\* C4: a Save whose validate_value returns false sets the failure status
\* message and leaves the mode Edit, the session open and unchanged
\* (pending_value included) and the backing state unchanged.
C4_RefusedSaveKeepsSession ==
    [][ (EditSave /\ ValidationRefused(calls')) =>
           /\ status_message' = Some("Save failed: Invalid value")
           /\ input_mode' = "Edit"
           /\ IsSome(edit_state')
           /\ edit_state' = edit_state
           /\ backing' = backing
      ]_vars

\* C4 witness: a Save has just been refused by validate_value
C4_Witness ==
    /\ ValidationRefused(calls)
    /\ input_mode = "Edit"
    /\ status_message = Some("Save failed: Invalid value")

\* C5: Escape on an open session closes it, returns to Normal, reports the
\* cancellation, calls nothing, and leaves the backing state what it was
\* when the session was opened.
C5_CancelDiscards ==
    [][ (EditEsc /\ IsSome(edit_state)) =>
           /\ edit_state' = None
           /\ input_mode' = "Normal"
           /\ status_message' = Some("Edit cancelled")
           /\ calls' = <<>>
           /\ IsSome(opened_backing)
           /\ backing' = Unwrap(opened_backing)
      ]_vars

\* C5 witness: a session whose pending_value was edited has been cancelled
C5_Witness ==
    /\ status_message = Some("Edit cancelled")
    /\ input_mode = "Normal"
    /\ edit_state = None

\* C6: right after a session is opened, current_value is the value read from
\* the editor, pending_value equals it, options is the option list read from
\* the editor, selected_option_index is 0 and the mode is Edit.
C6_OpenInitialisesSession ==
    [][ ((NormalEnter \/ NormalQuickEdit) /\ IsSome(edit_state')) =>
           LET es == Unwrap(edit_state')
           IN  /\ Len(calls') = 2
               /\ calls'[1].fn = "get_current_value"
               /\ calls'[1].editor = es.editor
               /\ calls'[1].ret \in get_current_value(es.editor, backing)
               /\ calls'[1].ret.ok
               /\ es.current_value = calls'[1].ret.val
               /\ es.pending_value = Some(es.current_value)
               /\ calls'[2].fn = "get_available_options"
               /\ calls'[2].editor = es.editor
               /\ calls'[2].ret.ok
               /\ es.options = calls'[2].ret.val
               /\ es.selected_option_index = 0
               /\ input_mode' = "Edit"
      ]_vars

\* C6 witness: a session with a non-empty option list has just been opened
C6_Witness ==
    /\ input_mode = "Edit"
    /\ IsSome(edit_state)
    /\ Len(calls) = 2
    /\ calls[2].fn = "get_available_options"
    /\ Unwrap(edit_state).options # <<>>

\* what identifies a session: its item, editor, type and the values read at open
SessionIdentity(es) ==
    <<es.item_name, es.editor, es.editor_type, es.current_value, es.options>>

\* C7: the mode is one of Normal, Search, Edit; a session exists exactly when
\* the mode is Edit; and while a session is open no step replaces it by
\* another one or reads an editor to open one.
C7_OneSessionOnlyInEdit ==
    /\ [](/\ input_mode \in {"Normal", "Search", "Edit"}
          /\ Len(edit_state) <= 1
          /\ IsSome(edit_state) <=> input_mode = "Edit")
    /\ [][ (IsSome(edit_state) /\ IsSome(edit_state')) =>
              /\ SessionIdentity(Unwrap(edit_state')) = SessionIdentity(Unwrap(edit_state))
              /\ \A i \in 1..Len(calls') : calls'[i].fn # "get_current_value"
         ]_vars

\* C7 witness: a session is open after an earlier one was cancelled
C7_Witness ==
    /\ input_mode = "Edit"
    /\ IsSome(edit_state)
    /\ status_message = Some("Edit cancelled")

\* C8: in an open session pending_value is a Boolean for Toggle, numeric for
\* Slider, and of the variant of the session's options for Dropdown and
\* ResolutionPicker.
C8_PendingVariantMatchesKind ==
    IsSome(edit_state) =>
       LET es == Unwrap(edit_state)
           kind == es.editor_type.kind
       IN  /\ IsSome(es.pending_value)
           /\ LET tag == Unwrap(es.pending_value).tag
              IN  CASE kind = "Toggle" -> tag = "Bool"
                    [] kind = "Slider" -> tag \in {"Float", "Integer"}
                    [] kind \in {"Dropdown", "ResolutionPicker"} ->
                          \A i \in 1..Len(es.options) : es.options[i].value.tag = tag
                    [] OTHER -> TRUE

\* C8 witness: a Dropdown session whose pending_value was replaced by an option
C8_Witness ==
    /\ IsSome(edit_state)
    /\ Unwrap(edit_state).editor_type.kind = "Dropdown"
    /\ Unwrap(edit_state).selected_option_index = 1
    /\ Len(Unwrap(edit_state).options) >= 2
    /\ Unwrap(edit_state).pending_value = Some(Unwrap(edit_state).options[2].value)
    /\ Unwrap(edit_state).pending_value # Some(Unwrap(edit_state).current_value)

\* q occurs in hay when case is ignored
OccursIgnoringCase(hay, q) ==
    \E off \in 0..(Len(hay) - Len(q)) :
        \A k \in 1..Len(q) : LowerChar(hay[off + k]) = LowerChar(q[k])

\* item number i is of category number ci and, for a non-empty q, has q in its
\* name, its description or one of its keywords
Matches(i, ci, q) ==
    /\ Items[i].category = Categories[ci + 1]
    /\ q # <<>> =>
          \/ OccursIgnoringCase(Items[i].name, q)
          \/ /\ IsSome(Items[i].description)
             /\ OccursIgnoringCase(Unwrap(Items[i].description), q)
          \/ \E k \in 1..Len(Items[i].keywords) :
                OccursIgnoringCase(Items[i].keywords[k], q)

\* view lists, in the order of Items and once each, the items that match
IsFilteredView(view, ci, q) ==
    /\ \A a, b \in 1..Len(view) : a < b => view[a] < view[b]
    /\ { view[a] : a \in 1..Len(view) } = { i \in 1..Len(Items) : Matches(i, ci, q) }

\* a step that recomputes the filtered view
Recomputes ==
    \/ SearchChar
    \/ SearchBackspace
    \/ SearchEsc
    \/ (NormalDown \/ NormalUp) /\ category_index' # category_index

\* C9: the initial view and every recomputed view is the subsequence of
\* Items, in order and without duplicates, of the items of the selected
\* category that, for a non-empty query, contain it ignoring case in their
\* name, description or a keyword.
C9_RecomputedViewIsTheFilter ==
    /\ IsFilteredView(filtered_items, category_index, search_query)
    /\ [][ Recomputes =>
              IsFilteredView(filtered_items', category_index', search_query') ]_vars

\* C9 witness: a query typed in upper case selects the item it names
C9_Witness ==
    /\ input_mode = "Search"
    /\ search_query = <<"S", "q">>
    /\ filtered_items = <<1>>

\* C10: in an open session selected_option_index stays within the option
\* list: 0 when the list is empty, below its length otherwise.
C10_OptionIndexInRange ==
    IsSome(edit_state) =>
       LET es == Unwrap(edit_state)
       IN  IF es.options = <<>>
           THEN es.selected_option_index = 0
           ELSE es.selected_option_index < Len(es.options)

\* the number a numeric SettingValue stands for, in thousandths
Thousandths(value) == IF value.tag = "Integer" THEN value.v * 1000 ELSE value.v

\* the session is a Slider session whose pending_value is numeric
NumericSlider(eso) ==
    /\ IsSome(eso)
    /\ Unwrap(eso).editor_type.kind = "Slider"
    /\ IsSome(Unwrap(eso).pending_value)
    /\ Unwrap(Unwrap(eso).pending_value).tag \in {"Float", "Integer"}

\* the number held by the pending_value of an open numeric slider session
PendingNumber(eso) == Thousandths(Unwrap(Unwrap(eso).pending_value))

Smaller(a, b) == IF a < b THEN a ELSE b

Larger(a, b) == IF a > b THEN a ELSE b

PendingAt(eso, b) == NumericSlider(eso) /\ PendingNumber(eso) = b

\* C12: once pending_value equals max a Right press, coarse or fine, leaves
\* it max, and once it equals min a Left press leaves it min; so does any
\* number of them.
C12_ClampIsIdempotent ==
    [][ /\ (EditRight /\ PendingAt(edit_state, Unwrap(edit_state).editor_type.max))
            => PendingAt(edit_state', Unwrap(edit_state).editor_type.max)
        /\ (EditLeft /\ PendingAt(edit_state, Unwrap(edit_state).editor_type.min))
            => PendingAt(edit_state', Unwrap(edit_state).editor_type.min)
      ]_vars

\* C12 witness: a session opened at 95 has been pushed up to max
C12_Witness ==
    /\ PendingAt(edit_state, 100000)
    /\ Unwrap(edit_state).current_value = Float(95000)

\* the open session is a Toggle session
ToggleSession(eso) == IsSome(eso) /\ Unwrap(eso).editor_type.kind = "Toggle"

\* the step was a Save in which validate_value returned true and set_value
\* succeeded
SaveCommitted(cs) ==
    /\ Len(cs) = 2
    /\ ValidatedFirst(cs) /\ ReturnedTrue(cs[1])
    /\ cs[2].fn = "set_value" /\ cs[2].ret.ok

\* C13: in a Toggle session a confirm flips the Boolean pending_value and
\* changes nothing else, so two confirms restore the session; a Save of the
\* session in which validate_value returns true and set_value succeeds leaves
\* the backing value equal to the pending Boolean (true after one confirm on
\* a value read as false), the mode Normal, the session closed and the
\* success message as status.
C13_ToggleFlipsAndSaves ==
    /\ [](ToggleSession(edit_state) =>
             edit_confirm(edit_confirm(Unwrap(edit_state))) = Unwrap(edit_state))
    /\ [][ (EditConfirm /\ ToggleSession(edit_state)) =>
              LET es == Unwrap(edit_state)
              IN  /\ IsSome(es.pending_value)
                  /\ Unwrap(es.pending_value).tag = "Bool"
                  /\ edit_state' =
                        Some([es EXCEPT !.pending_value =
                                Some(Bool(~Unwrap(es.pending_value).v))])
                  /\ UNCHANGED <<category_index, item_index, filtered_items,
                                 focus_area, input_mode, search_query,
                                 status_message, should_quit, backing, running>>
        ]_vars
    /\ [][ (EditSave /\ ToggleSession(edit_state) /\ SaveCommitted(calls')) =>
              LET es == Unwrap(edit_state)
              IN  /\ backing'[es.editor] = Unwrap(es.pending_value).v
                  /\ (es.current_value = Bool(FALSE)
                       /\ es.pending_value = Some(Bool(TRUE)))
                          => (backing[es.editor] = FALSE /\ backing'[es.editor] = TRUE)
                  /\ \A k \in BackedKeys \ {es.editor} : backing'[k] = backing[k]
                  /\ input_mode' = "Normal"
                  /\ edit_state' = None
                  /\ status_message' = Some(Str(es.item_name) \o " updated successfully")
        ]_vars

\* C13 witness: a Toggle session read as false was confirmed once and saved:
\* the adapter is now enabled
C13_Witness ==
    /\ SaveCommitted(calls)
    /\ calls[2].editor = "wifi_adapter_toggle"
    /\ calls[2].arg = Some(Bool(TRUE))
    /\ backing["wifi_adapter_toggle"] = TRUE
    /\ input_mode = "Normal"
    /\ edit_state = None
    /\ status_message = Some("Sq updated successfully")

\* the error with which opening a session for item fails in a step whose
\* calls are cs; None when it does not fail
EntryFailure(item, cs) ==
    IF ~IsSome(item.editor_key)
    THEN Some("This setting cannot be edited inline")
    ELSE IF ~IsSome(create_editor(Unwrap(item.editor_key)))
    THEN Some("No editor available for this setting")
    ELSE IF cs # <<>> /\ ~cs[Len(cs)].ret.ok
    THEN Some(cs[Len(cs)].ret.err)
    ELSE None

\* a step that activates the selected item for inline editing
Activates ==
    /\ NormalEnter \/ NormalQuickEdit
    /\ focus_area = "Items"
    /\ IsSome(selected_item)
    /\ Unwrap(selected_item).can_edit_inline

\* C14: when activating an item cannot open a session (no editor key, no
\* editor registered for the key, get_current_value or get_available_options
\* fails), the mode stays Normal, no session exists, the status message is
\* the error, and category index, item index, filtered view, search text,
\* focus and backing state are unchanged.  The quick-edit key on an item not
\* flagged for inline editing does the same without reading an editor.
C14_FailedEntryOpensNothing ==
    /\ [][ (Activates /\ IsSome(EntryFailure(Unwrap(selected_item), calls'))) =>
              /\ input_mode' = "Normal"
              /\ edit_state' = None
              /\ status_message' =
                    Some("Error: " \o Unwrap(EntryFailure(Unwrap(selected_item), calls')))
              /\ \A i \in 1..Len(calls') :
                    calls'[i].fn \in {"get_current_value", "get_available_options"}
              /\ UNCHANGED <<category_index, item_index, filtered_items,
                             search_query, focus_area, backing, should_quit>>
         ]_vars
    /\ [][ (/\ NormalQuickEdit
            /\ focus_area = "Items"
            /\ IsSome(selected_item)
            /\ ~Unwrap(selected_item).can_edit_inline) =>
           /\ input_mode' = "Normal"
           /\ edit_state' = None
           /\ status_message' = Some("This setting cannot be edited inline")
           /\ calls' = <<>>
           /\ UNCHANGED <<category_index, item_index, filtered_items,
                          search_query, focus_area, backing, should_quit>>
      ]_vars

\* C14 witness: get_available_options failed after get_current_value had
\* succeeded, and no session was opened
C14_Witness ==
    /\ Len(calls) = 2
    /\ calls[1].fn = "get_current_value" /\ calls[1].ret.ok
    /\ calls[2].fn = "get_available_options" /\ ~calls[2].ret.ok
    /\ input_mode = "Normal"
    /\ edit_state = None
    /\ status_message = Some("Error: " \o calls[2].ret.err)

\* C15: no key event aborts the main loop: in every reachable state the loop
\* is still running or was left by the quit key, never by a panic, also after
\* Down on an empty filtered view and Down in a session without options.
C15_NoKeyAbortsTheLoop == running \in {"running", "quit"}

\* what the channel has carried so far: the events returned, then those queued
Carried == received \o channel

\* e is an input event (a key, mouse or resize event) or a Tick
InputOrTick(e) == e.type \in {"Key", "Mouse", "Resize", "Tick"}

\* C16 as claimed: while the receiver lives, the input events the poller has
\* read and the Ticks it has made are, in that order and once each, the
\* events next() has returned followed by the events still queued.
C16_EveryEventReadIsReturned ==
    ~receiver_dropped => SelectSeq(generated, InputOrTick) = Carried

\* e is a key press, a mouse event, a resize or a Tick
PressMouseResizeOrTick(e) ==
    \/ e.type \in {"Tick", "Mouse", "Resize"}
    \/ e.type = "Key" /\ e.kind = "Press"

\* a step of the poller
PollerStep == PollerPoll \/ PollerRead \/ PollerTick \/ PollerHook

\* C16 as amended: while the receiver lives, the key presses, mouse events
\* and resizes the poller has read and the Ticks it has made are, in that
\* order and once each, the events next() has returned followed by the
\* events still queued; next() returns the oldest queued event; and a send
\* of the poller appends to the queue whatever the main thread is doing,
\* without moving the main thread.
C16_ForwardedEventsAreReturnedInOrder ==
    /\ [](~receiver_dropped =>
             SelectSeq(generated, PressMouseResizeOrTick) = Carried)
    /\ [][ MainNext => received' = Append(received, Head(channel)) ]_vars
    /\ [][ PollerStep =>
              /\ main' = main /\ received' = received
              /\ \/ channel' = channel
                 \/ /\ Len(channel') = Len(channel) + 1
                    /\ SubSeq(channel', 1, Len(channel)) = channel
                    /\ channel'[Len(channel')] = generated'[Len(generated')]
        ]_vars

\* C16 witness: a key release was read and sent nowhere, one event has been
\* returned and another waits in the queue
C16_Witness ==
    /\ ~receiver_dropped
    /\ \E i \in 1..Len(generated) : generated[i] = KeyEvent("q", "Release")
    /\ Len(received) = 1
    /\ Len(channel) = 1

\* the poller has panicked while the receiver lived: poll or read failed
PollerFailed == poller \in HookSteps \cup {"dead"} /\ ~receiver_dropped

\* C17: after a failure of poll or read in the poller the process goes on to
\* its end: it has not come to a state in which no thread can take a step,
\* the main thread waiting in next() for an event that nothing will send.
C17_PollFailureEndsTheProcess ==
    PollerFailed => (main = "exited" \/ ENABLED LoopNext)

\* C18: when the process has ended the terminal is restored: raw mode off
\* and the alternate screen left.
C18_TerminalRestoredAtExit ==
    main = "exited" =>
       terminal = [raw_mode |-> FALSE, alternate_screen |-> FALSE]

----------------------------------------------------------------------------
\* C19: the quit key handled in Normal mode sets should_quit and the loop is
\* left in that same iteration with the success result: the flag is set
\* exactly when the loop has been left by its break, only the Normal-mode quit
\* handler changes the flag, and no iteration (no draw, no event handled)
\* starts once the flag is set, so it is never reset.
C19_QuitEndsTheLoop ==
    /\ [](should_quit <=> running = "quit")
    /\ [][ (should_quit' # should_quit) =>
              (NormalQuit /\ input_mode = "Normal" /\ should_quit'
                 /\ running' = "quit") ]_vars
    /\ [][ ~should_quit /\ running = "running" ]_vars

\* C19 witness: the quit key was handled after other keys and the loop is left
C19_Witness ==
    /\ should_quit
    /\ running = "quit"
    /\ focus_area = "Items"
    /\ IsSome(status_message)

\* the one launcher call of a step, made for the selected item
LaunchedOnce(cs, idx) ==
    /\ Len(cs) = 1
    /\ cs[1].fn = "launch_setting"
    /\ cs[1].arg = Some(idx)

\* C20: Enter in Normal mode with focus on Items and an item selected: when
\* the item's can_edit_inline is set the step is an attempt of
\* enter_edit_mode on that item and the launcher is not called; otherwise the
\* launcher is called exactly once, with that item, no session is opened and
\* the mode stays Normal; a failed launch sets the status message to the
\* error, a successful one leaves it, and should_quit stays unset.
C20_EnterEditsOrLaunches ==
    [][ (NormalEnter /\ focus_area = "Items" /\ IsSome(selected_item)) =>
           LET item == Unwrap(selected_item)
           IN  IF item.can_edit_inline
               THEN /\ \E o \in enter_edit_mode(item, backing) : ApplyEnter(o)
                    /\ \A i \in 1..Len(calls') : calls'[i].fn # "launch_setting"
               ELSE /\ LaunchedOnce(calls', filtered_items[item_index + 1])
                    /\ edit_state' = None
                    /\ input_mode' = "Normal"
                    /\ ~should_quit'
                    /\ status_message' =
                          IF calls'[1].ret.ok THEN status_message
                          ELSE Some("Error: " \o calls'[1].ret.err)
      ]_vars

\* C20 witness: the launcher was called for the item that is not edited
\* inline and failed
C20_Witness ==
    /\ Len(calls) = 1
    /\ calls[1].fn = "launch_setting"
    /\ ~Items[Unwrap(calls[1].arg)].can_edit_inline
    /\ ~calls[1].ret.ok
    /\ status_message = Some("Error: Failed to launch Settings app")
    /\ input_mode = "Normal"
    /\ edit_state = None
    /\ ~should_quit

----------------------------------------------------------------------------
\* the items of category number ci, in the order of Items
CategoryView(view, ci) ==
    /\ \A a, b \in 1..Len(view) : a < b => view[a] < view[b]
    /\ { view[a] : a \in 1..Len(view) } =
          { i \in 1..Len(Items) : Items[i].category = Categories[ci + 1] }

\* what the other fields of the application are after a Search-mode key
SearchKeyFrame ==
    UNCHANGED <<category_index, focus_area, status_message, should_quit,
                edit_state, backing, running>>

\* C21: in Search mode a character key appends the character to the query
\* and re-filters; Backspace removes the last character (the text of an
\* empty query stays empty) and re-filters; Enter returns to Normal with the
\* query and the filtered view unchanged; Escape returns to Normal with an
\* empty query and the filtered view equal to all items of the selected
\* category.
C21_SearchKeysEditTheQuery ==
    /\ [][ SearchChar =>
              /\ \E c \in KeyChars : search_query' = search_query \o <<c>>
              /\ IsFilteredView(filtered_items', category_index, search_query')
              /\ item_index' = 0
              /\ input_mode' = "Search"
              /\ SearchKeyFrame ]_vars
    /\ [][ SearchBackspace =>
              /\ IF search_query = <<>>
                 THEN search_query' = <<>>
                 ELSE /\ Len(search_query') = Len(search_query) - 1
                      /\ \A k \in 1..Len(search_query') :
                            search_query'[k] = search_query[k]
              /\ IsFilteredView(filtered_items', category_index, search_query')
              /\ item_index' = 0
              /\ input_mode' = "Search"
              /\ SearchKeyFrame ]_vars
    /\ [][ SearchEnter =>
              /\ input_mode' = "Normal"
              /\ UNCHANGED <<search_query, filtered_items, item_index>>
              /\ SearchKeyFrame ]_vars
    /\ [][ SearchEsc =>
              /\ input_mode' = "Normal"
              /\ search_query' = <<>>
              /\ CategoryView(filtered_items', category_index)
              /\ item_index' = 0
              /\ SearchKeyFrame ]_vars

\* C21 witness: a two-character query was typed and kept by Enter, with the
\* view it selects
C21_Witness ==
    /\ input_mode = "Normal"
    /\ Len(search_query) = 2
    /\ filtered_items # <<>>
    /\ ~CategoryView(filtered_items, category_index)

\* what a Normal-mode navigation key leaves alone besides the indices, the
\* view and the focus
NavigationFrame ==
    UNCHANGED <<input_mode, search_query, status_message, should_quit,
                edit_state, backing, running>>

\* the index after a move by 1 towards the end of a list of len entries, or
\* towards its start: unchanged at the last and at the first position
MovedDown(index, len) == IF index + 1 < len THEN index + 1 ELSE index
MovedUp(index) == IF index > 0 THEN index - 1 ELSE index

\* the effect of a move of the category index to ci: unchanged view and item
\* index when the category index is kept, a new filter and item 0 otherwise
CategoryMoved(ci) ==
    /\ category_index' = ci
    /\ IF ci = category_index
       THEN UNCHANGED <<filtered_items, item_index>>
       ELSE /\ IsFilteredView(filtered_items', ci, search_query)
            /\ item_index' = 0

\* C22: in Normal mode Tab swaps the focus and changes nothing else; Up and
\* Down move only the focused index, by exactly 1, and are no-ops at the
\* first and last position; a move that changes the category index
\* re-filters and sets item_index to 0, one that does not leaves the view
\* and item_index as they were.
C22_NavigationMovesByOne ==
    /\ [][ NormalTab =>
              /\ focus_area' = (IF focus_area = "Items" THEN "Categories"
                                ELSE "Items")
              /\ UNCHANGED <<category_index, item_index, filtered_items>>
              /\ NavigationFrame ]_vars
    /\ [][ (NormalDown /\ focus_area = "Categories") =>
              /\ CategoryMoved(MovedDown(category_index, Len(Categories)))
              /\ UNCHANGED focus_area
              /\ NavigationFrame ]_vars
    /\ [][ (NormalUp /\ focus_area = "Categories") =>
              /\ CategoryMoved(MovedUp(category_index))
              /\ UNCHANGED focus_area
              /\ NavigationFrame ]_vars
    /\ [][ (NormalDown /\ focus_area = "Items") =>
              /\ item_index' = MovedDown(item_index, Len(filtered_items))
              /\ UNCHANGED <<category_index, filtered_items, focus_area>>
              /\ NavigationFrame ]_vars
    /\ [][ (NormalUp /\ focus_area = "Items") =>
              /\ item_index' = MovedUp(item_index)
              /\ UNCHANGED <<category_index, filtered_items, focus_area>>
              /\ NavigationFrame ]_vars

\* Normal mode with focus on Items and an item selected whose can_edit_inline
\* is inline
ItemSelected(inline) ==
    /\ running = "running" /\ input_mode = "Normal"
    /\ focus_area = "Items"
    /\ IsSome(selected_item)
    /\ Unwrap(selected_item).can_edit_inline = inline

\* C23: on a selected item with can_edit_inline set, every state the
\* quick-edit key leads to (with the editor calls made and their results) is
\* one Enter leads to, and the reverse; on a selected item without
\* can_edit_inline the quick-edit key calls nothing, leaves the mode Normal
\* and no session, and changes only the status message.
C23_QuickEditIsEntersEditBranch ==
    /\ [][ (NormalQuickEdit /\ ItemSelected(TRUE)) => NormalEnter ]_vars
    /\ [][ (NormalEnter /\ ItemSelected(TRUE)) => NormalQuickEdit ]_vars
    /\ [][ (NormalQuickEdit /\ ItemSelected(FALSE)) =>
              /\ calls' = <<>>
              /\ input_mode' = "Normal"
              /\ edit_state' = None
              /\ status_message' = Some("This setting cannot be edited inline")
              /\ UNCHANGED <<category_index, item_index, filtered_items,
                             focus_area, search_query, should_quit, backing,
                             running>> ]_vars

\* C23 witness: the quick-edit key has been refused on an item that is not
\* edited inline, and on the item now selected it can open a session
C23_Witness ==
    /\ ItemSelected(TRUE)
    /\ status_message = Some("This setting cannot be edited inline")
    /\ ENABLED (NormalQuickEdit /\ input_mode' = "Edit")

----------------------------------------------------------------------------
(* Sessions of the kinds without an arm in the Edit-mode confirm key.      *)
(* create_editor registers no editor whose type is TextInput, NumberInput  *)
(* or Custom, so the Edit-mode keys are exercised on the sessions          *)
(* enter_edit_mode would store for such an editor: the values and options  *)
(* of a registered editor, under one of these types.                       *)

\* EditorType::TextInput, EditorType::NumberInput, EditorType::Custom
FallbackTypes ==
    { [kind |-> "TextInput", multiline |-> FALSE],
      [kind |-> "NumberInput", min |-> None, max |-> Some(10)],
      [kind |-> "Custom"] }

\* the sessions enter_edit_mode stores for item number i over backing b
OpenedSessions(i, b) ==
    { Unwrap(o.session) : o \in { p \in enter_edit_mode(Items[i], b) :
                                     IsSome(p.session) } }

\* the first item and the fifth, a toggle and a dropdown, under the types
\* of FallbackTypes
FallbackSessions(i, b) ==
    { [es EXCEPT !.editor_type = editor_type] :
        es \in OpenedSessions(i, b), editor_type \in FallbackTypes }

\* the state after Enter on an item has opened such a session
FallbackInit ==
    /\ LoopRunning
    /\ category_index \in {0, 2}
    /\ item_index = 0
    /\ filtered_items = filter_items(category_index, <<>>)
    /\ focus_area = "Items"
    /\ input_mode = "Edit"
    /\ search_query = <<>>
    /\ status_message = None
    /\ should_quit = FALSE
    /\ backing \in InitialBacking
    /\ edit_state \in { Some(es) :
                          es \in FallbackSessions(filtered_items[1], backing) }
    /\ running = "running"
    /\ calls = <<>>
    /\ opened_backing = Some(backing)

\* the keys of Edit mode
FallbackNext ==
    \/ App(EditEsc) \/ App(EditSave) \/ App(EditConfirm)
    \/ App(EditUp) \/ App(EditDown)
    \/ App(EditLeft) \/ App(EditRight) \/ App(EditOther)

FallbackSpec == FallbackInit /\ [][FallbackNext]_vars

\* an open session of a kind without a defined interaction
FallbackSession(eso) ==
    /\ IsSome(eso)
    /\ Unwrap(eso).editor_type.kind \in {"Custom", "TextInput", "NumberInput"}

\* the step hands the selected item to the launcher
HandsOff == IsSome(selected_item) /\ LaunchedOnce(calls', filtered_items[item_index + 1])

OperationFailed(cs) ==
    /\ cs # <<>>
    /\ cs[Len(cs)].fn \in {"validate_value", "set_value"}
    /\ ~cs[Len(cs)].ret.ok

\* C25: when validate_value or set_value returns an error during Save, the
\* status message is "Save failed: " and the error, the mode stays Edit, the
\* session stays as it was (pending_value included) and the loop goes on:
\* the state reached is one in which the save key and the cancel key are
\* handled on that session (Edit mode, session open, loop running).
C25_FailedSaveIsRecovered ==
    /\ [][ (EditSave /\ IsSome(edit_state) /\ OperationFailed(calls')) =>
              /\ status_message' =
                    Some("Save failed: " \o calls'[Len(calls')].ret.err)
              /\ input_mode' = "Edit"
              /\ edit_state' = edit_state
              /\ running' = "running"
              /\ UNCHANGED <<category_index, item_index, filtered_items,
                             focus_area, search_query, should_quit>> ]_vars
    /\ []((input_mode = "Edit" /\ OperationFailed(calls)) =>
             (IsSome(edit_state) /\ running = "running"))

\* C25 witness: set_value of the audio device editor has failed and the
\* session is still open
C25_Witness ==
    /\ input_mode = "Edit"
    /\ IsSome(edit_state)
    /\ Unwrap(edit_state).editor = "audio_device"
    /\ Len(calls) = 2
    /\ calls[2].fn = "set_value"
    /\ ~calls[2].ret.ok
    /\ status_message =
          Some("Save failed: Audio device switching not yet implemented")

\* item is flagged for inline editing and create_editor returns no editor
\* for its key
EditorUnavailable(item) ==
    /\ item.can_edit_inline
    /\ IsSome(item.editor_key)
    /\ ~IsSome(create_editor(Unwrap(item.editor_key)))

\* C26: Enter on a selected item that is flagged can_edit_inline and whose
\* key has no registered editor calls the launcher with that item.
C26_UnavailableEditorFallsBackToLauncher ==
    [][ (NormalEnter /\ ItemSelected(TRUE)
           /\ EditorUnavailable(Unwrap(selected_item))) =>
           LaunchedOnce(calls', filtered_items[item_index + 1]) ]_vars

\* the step is in mode from and ends in mode to
ModeChange(from, to) == input_mode = from /\ input_mode' = to

\* the step opened a session on the selected item, flagged for inline editing
EntrySucceeded ==
    /\ NormalEnter \/ NormalQuickEdit
    /\ ItemSelected(TRUE)
    /\ EntryFailure(Unwrap(selected_item), calls') = None
    /\ IsSome(edit_state')

\* C27: the mode is always one of Normal, Search and Edit, and a step that
\* changes it is '/' in Normal (to Search), Enter or Escape in Search (to
\* Normal), Enter or quick-edit in Normal on a selected inline-editable item
\* whose session entry succeeds (to Edit), or Escape or a committed Save in
\* Edit (to Normal); a Tick, mouse or resize event leaves the mode.
C27_ModeChangesOnlyByItsKeys ==
    /\ [](input_mode \in {"Normal", "Search", "Edit"})
    /\ [][ input_mode' # input_mode =>
              \/ ModeChange("Normal", "Search") /\ NormalSlash
              \/ ModeChange("Search", "Normal") /\ (SearchEnter \/ SearchEsc)
              \/ ModeChange("Normal", "Edit") /\ EntrySucceeded
              \/ ModeChange("Edit", "Normal")
                   /\ (EditEsc \/ (EditSave /\ SaveCommitted(calls'))) ]_vars
    /\ [][ OtherEvent => UNCHANGED input_mode ]_vars

\* C27 witness: a session was opened and cancelled, and the search was
\* entered afterwards and a character typed
C27_Witness ==
    /\ input_mode = "Search"
    /\ Len(search_query) = 1
    /\ status_message = Some("Edit cancelled")

\* C28: after a Save refused by validate_value the session, still open,
\* carries the error in its own error_message field: "Invalid value".
C28_RefusedSaveAnnotatesTheSession ==
    (input_mode = "Edit" /\ ValidationRefused(calls)) =>
       /\ IsSome(edit_state)
       /\ Unwrap(edit_state).error_message = Some("Invalid value")

\* an open session of kind Dropdown or ResolutionPicker
PickerSession(eso) ==
    /\ IsSome(eso)
    /\ Unwrap(eso).editor_type.kind \in {"Dropdown", "ResolutionPicker"}

\* session es with the value of its selected option pending, and es itself
\* when it has no options
Picked(es) ==
    IF es.options = <<>> THEN es
    ELSE [es EXCEPT !.pending_value =
             Some(es.options[es.selected_option_index + 1].value)]

\* C29: in a Dropdown or ResolutionPicker session confirm sets pending_value
\* to the value of options[selected_option_index] and changes nothing else
\* of the session (selected_option_index, current_value, options) nor of the
\* application, the backing state included; with an empty option list the
\* session is left as it is.
C29_ConfirmTakesTheSelectedOption ==
    /\ [](PickerSession(edit_state) =>
             edit_confirm(Unwrap(edit_state)) = Picked(Unwrap(edit_state)))
    /\ [][ (EditConfirm /\ PickerSession(edit_state)) =>
              /\ edit_state' = Some(Picked(Unwrap(edit_state)))
              /\ UNCHANGED <<category_index, item_index, filtered_items,
                             focus_area, input_mode, search_query,
                             status_message, should_quit, backing, running>>
        ]_vars

\* C29 witness: in the resolution picker the second mode was selected and
\* confirmed, and it is not the current resolution
C29_Witness ==
    /\ PickerSession(edit_state)
    /\ Unwrap(edit_state).editor_type.kind = "ResolutionPicker"
    /\ Unwrap(edit_state).selected_option_index = 1
    /\ Len(Unwrap(edit_state).options) >= 2
    /\ Unwrap(edit_state).pending_value = Some(Unwrap(edit_state).options[2].value)
    /\ Unwrap(edit_state).current_value # Unwrap(edit_state).options[2].value
    /\ calls = <<>>

----------------------------------------------------------------------------
(* The process under a fair scheduler: a thread that can take a step       *)
(* eventually takes one.                                                   *)

MainThread == MainSetup \/ MainSpawn \/ MainDraw \/ MainNext \/ MainRestore

PollerThread == PollerPoll \/ PollerRead \/ PollerTick \/ PollerHook

LoopLiveSpec ==
    /\ LoopInit
    /\ [][LoopNext]_vars
    /\ WF_vars(MainThread)
    /\ WF_vars(PollerThread)

\* the poller is in its loop and the receiver lives
PollerRuns ==
    /\ Alive
    /\ poller \in {"poll", "read", "tick"}
    /\ ~receiver_dropped

\* the poller has no room left in the model for a further event
EventsExhausted == Len(generated) >= MaxEvents

\* the step appends event e to the channel
Enqueues(e) == channel' = channel \o <<e>>

\* C30: once the tick interval has run out (tick_due) the poller goes from
\* poll to read or to the tick check without sending, from read to the tick
\* check having sent at most the one event read, and at the tick check it
\* sends the Tick, so at most one input event is enqueued before the Tick;
\* tick_due ends only by the Tick being enqueued.  While the poller runs a
\* due Tick is eventually enqueued, and a main thread waiting in next() on
\* an empty channel eventually finds an event in it.
C30_TickLatencyIsBounded ==
    /\ [][ (tick_due /\ PollerRuns /\ PollerThread) =>
              CASE poller = "poll" ->
                      /\ channel' = channel
                      /\ poller' \in {"read", "tick"} \cup HookSteps
                      /\ tick_due'
                [] poller = "read" ->
                      /\ channel' = channel
                           \/ \E e \in InputEvents : forwarded(e) /\ Enqueues(e)
                      /\ poller' \in {"tick"} \cup HookSteps
                      /\ tick_due'
                [] OTHER ->
                      /\ Enqueues(Tick)
                      /\ poller' = "poll"
                      /\ ~tick_due' ]_vars
    /\ [][ (tick_due /\ ~tick_due') => (PollerTick /\ Enqueues(Tick)) ]_vars
    /\ (tick_due /\ PollerRuns) ~>
          (~tick_due \/ ~PollerRuns \/ EventsExhausted)
    /\ (main = "next" /\ channel = <<>> /\ PollerRuns) ~>
          (channel # <<>> \/ ~PollerRuns \/ EventsExhausted)

\* C30 witness: the interval ran out while an event was read: the event was
\* sent and the Tick right behind it, and the main thread has both to take
C30_Witness ==
    /\ PollerRuns
    /\ main = "next"
    /\ Len(channel) = 2
    /\ channel[1] = [type |-> "Mouse"]
    /\ channel[2] = Tick
    /\ ~tick_due
    /\ poller = "poll"

----------------------------------------------------------------------------
\* what a frame shows: the application state without the history variables
Shown ==
    <<category_index, item_index, filtered_items, focus_area, input_mode,
      search_query, status_message, should_quit, edit_state>>

\* C31: an iteration of the main loop is one draw, then one receive with the
\* handling of the event received and the check of should_quit.  The main
\* thread comes to wait in next() only by a draw, from the top of the loop;
\* a receive returns exactly one event and is followed by the top of the
\* loop, or by the exit from the loop exactly when should_quit was set; the
\* application state changes only in the handling of a received event.
\* Hence the state produced by handling an event is drawn before the next
\* event is received, unless the event set should_quit.
C31_OneDrawPerEventHandled ==
    /\ [][ (main' = "next" /\ main # "next") =>
              (main = "draw" /\ MainDraw /\ Shown' = Shown) ]_vars
    /\ [][ received' # received =>
              /\ main = "next"
              /\ channel # <<>>
              /\ received' = received \o <<Head(channel)>>
              /\ IF should_quit'
                 THEN main' = "disable_raw" /\ running' = "quit"
                 ELSE main' = "draw" ]_vars
    /\ [][ app_vars' # app_vars => received' # received ]_vars
    /\ [](main = "draw" => ~should_quit)

\* C31 witness: two events have been handled, the second a Tab, and the
\* state it produced has been drawn: the main thread waits for the third
C31_Witness ==
    /\ Len(received) = 2
    /\ received[2] = KeyEvent("Tab", "Press")
    /\ focus_area = "Items"
    /\ main = "next"

\* the navigation state
Navigation ==
    <<category_index, item_index, filtered_items, search_query, focus_area>>

\* C32: the step that opens a session and every step taken in Edit mode,
\* the closing Save and Cancel included, leave category index, item index,
\* filtered view, search text and focus as they are; so they are after the
\* session what they were when it was opened.
C32_EditModeKeepsNavigation ==
    /\ [][ input_mode' = "Edit" => Navigation' = Navigation ]_vars
    /\ [][ input_mode = "Edit" => Navigation' = Navigation ]_vars

\* C32 witness: a session opened on the second item of a searched view was
\* cancelled, and the view, the query and the selection are in place
C32_Witness ==
    /\ input_mode = "Normal"
    /\ status_message = Some("Edit cancelled")
    /\ calls = <<>>
    /\ search_query = <<"q">>
    /\ category_index = 2
    /\ filtered_items = <<5, 6>>
    /\ item_index = 1
    /\ focus_area = "Items"

\* the calls of set_value among the calls cs
SetValueCalls(cs) == SelectSeq(cs, LAMBDA c : c.fn = "set_value")

\* C33: set_value is called only in the handling of the save key in Edit
\* mode, at most once per key, and the backing state changes only in such a
\* step, when set_value succeeded; the confirm keys, Up, Down, Left, Right,
\* the opening of a session and every Normal-mode and Search-mode key leave
\* the backing state as it is.
C33_OnlySaveCommits ==
    /\ [][ SetValueCalls(calls') # <<>> =>
              /\ EditSave
              /\ input_mode = "Edit"
              /\ Len(SetValueCalls(calls')) = 1 ]_vars
    /\ [][ backing' # backing =>
              /\ EditSave
              /\ input_mode = "Edit"
              /\ SaveCommitted(calls') ]_vars
    /\ [][ input_mode # "Edit" => backing' = backing ]_vars

\* C33 witness: the power plan was changed by a Save, that called set_value
\* once
C33_Witness ==
    /\ SaveCommitted(calls)
    /\ Len(SetValueCalls(calls)) = 1
    /\ calls[2].editor = "power_plan"
    /\ backing["power_plan"] = Unwrap(calls[2].arg).v
    /\ backing["power_plan"] # "guid-1"

\* the steps that write the status message: Enter and quick-edit in Normal
\* mode, Save and Cancel in Edit mode
StatusProducing == NormalEnter \/ NormalQuickEdit \/ EditSave \/ EditEsc

\* C34: a status message that is present stays present; it changes only in
\* a step of Enter, quick-edit, Save or Cancel, and then to another message;
\* navigation, search keys and Tick, mouse and resize events leave it.
C34_StatusMessageIsNeverCleared ==
    /\ [][ IsSome(status_message) => IsSome(status_message') ]_vars
    /\ [][ status_message' # status_message =>
              (StatusProducing /\ IsSome(status_message')) ]_vars
    /\ [][ (\/ NormalTab \/ NormalUp \/ NormalDown \/ NormalSlash \/ NormalOther
            \/ SearchChar \/ SearchBackspace \/ SearchEnter \/ SearchEsc
            \/ SearchOther \/ OtherEvent) =>
              UNCHANGED status_message ]_vars

\* C34 witness: the message set by quick-edit in the first category is still
\* there after a move to the third category and a search of two characters
C34_Witness ==
    /\ status_message = Some("This setting cannot be edited inline")
    /\ category_index = 2
    /\ input_mode = "Search"
    /\ Len(search_query) = 2

\* C35: the handling of a Tick, a mouse event or a resize event leaves the
\* application state as it is in every mode: indices, view, focus, mode,
\* query, status message, quit flag, the open session with every field, and
\* the backing state; the loop goes on.
C35_OtherEventsChangeNothing ==
    [][ OtherEvent =>
           /\ Shown' = Shown
           /\ backing' = backing
           /\ running' = "running" ]_vars

\* C35 witness: a session with an edited pending value, after an event that
\* called no editor
C35_Witness ==
    /\ input_mode = "Edit"
    /\ IsSome(edit_state)
    /\ Unwrap(edit_state).pending_value # Some(Unwrap(edit_state).current_value)
    /\ Unwrap(edit_state).selected_option_index = 1
    /\ item_index = 1
    /\ calls = <<>>

\* C36: the search text changes only by '/' in Normal mode and by a
\* character, Backspace or Escape in Search mode; every other Normal-mode
\* key and every Edit-mode key leave it, and a category selected in Normal
\* mode is shown filtered by the query as it stands.
C36_QueryOutlivesTheSearch ==
    /\ [][ search_query' # search_query =>
              \/ input_mode = "Normal" /\ NormalSlash
              \/ input_mode = "Search"
                   /\ (SearchChar \/ SearchBackspace \/ SearchEsc) ]_vars
    /\ [][ (\/ NormalTab \/ NormalUp \/ NormalDown \/ NormalEnter
            \/ NormalQuickEdit \/ input_mode = "Edit") =>
              search_query' = search_query ]_vars
    /\ [][ (input_mode = "Normal" /\ category_index' # category_index) =>
              IsFilteredView(filtered_items', category_index', search_query) ]_vars

\* C36 witness: in Normal mode, with a query kept from an earlier search and
\* the focus on the categories, the third category is shown filtered by it
C36_Witness ==
    /\ input_mode = "Normal"
    /\ focus_area = "Categories"
    /\ search_query = <<"q">>
    /\ category_index = 2
    /\ filtered_items = <<5, 6>>
    /\ ~CategoryView(filtered_items, category_index)

----------------------------------------------------------------------------
(* Searching with the characters that are keys of Normal mode and of Edit  *)
(* mode: the application from App::new, with the keys that lead into       *)
(* Search mode and the keys of Search mode.                                *)

\* 'q' (quit), 'e' (quick-edit), '/' (search), 's' (save) and space (confirm)
SearchChars == {"q", "e", "/", "s", " "}

SearchNext ==
    \/ App(NormalSlash) \/ App(NormalTab) \/ App(NormalDown)
    \/ App(SearchKey(SearchChars)) \/ App(SearchBackspace)
    \/ App(SearchEnter) \/ App(SearchEsc) \/ App(SearchOther)
    \/ App(OtherEvent)

SearchSpec == Init /\ [][SearchNext]_vars

\* C37: a step taken in Search mode leaves should_quit unset and the loop
\* running, opens no session, calls neither an editor nor the launcher, and
\* leaves the category index, the focus and the backing state; a character
\* key, 'q', 'e', '/', 's' and space included, appends its character to the
\* query and leaves the mode Search.
C37_SearchKeysAreOnlyText ==
    /\ [][ input_mode = "Search" =>
              /\ ~should_quit'
              /\ running' = "running"
              /\ edit_state' = None
              /\ input_mode' \in {"Search", "Normal"}
              /\ calls' = <<>>
              /\ UNCHANGED <<category_index, focus_area, backing,
                             status_message>> ]_vars
    /\ [][ SearchKey(SearchChars) =>
              /\ \E c \in SearchChars : search_query' = search_query \o <<c>>
              /\ input_mode' = "Search" ]_vars

\* C37 witness: with the focus on Items, 'q' and '/' were typed into the
\* query, which selects the item they name
C37_Witness ==
    /\ input_mode = "Search"
    /\ focus_area = "Items"
    /\ search_query = <<"q", "/">>
    /\ category_index = 2
    /\ filtered_items = <<5>>
    /\ ~should_quit
    /\ edit_state = None

\* C38: an open session always has a pending value, and no Save has failed
\* with "No value to save".
C38_PendingValueIsNeverAbsent ==
    /\ IsSome(edit_state) => IsSome(Unwrap(edit_state).pending_value)
    /\ status_message # Some("Save failed: No value to save")

\* C38 witness: a toggle session whose pending value was flipped and whose
\* Save failed in set_value: the session is open with the flipped value
C38_Witness ==
    /\ IsSome(edit_state)
    /\ Unwrap(edit_state).current_value = Bool(FALSE)
    /\ Unwrap(edit_state).pending_value = Some(Bool(TRUE))
    /\ status_message = Some("Save failed: Failed to change network adapter state")

====
